---- MODULE Spec2Model ----
(***************************************************************************)
(* Model of the vibe-editor microtext pipeline: path addressing            *)
(* (setNestedValue / getNestedValue), flattenMicrotext, the /api/microtext *)
(* and /api/microtext-array document-store routes, the /api/ai-edit        *)
(* instruction route, and the localStorage draft cache with its sync loop. *)
(*                                                                         *)
(* A JavaScript value is a record of one fixed shape, so that any two      *)
(* values can be compared:                                                 *)
(*   k     "str" | "arr" | "obj" | "undef" | "null" | "throw"              *)
(*   s     the text of a string                                            *)
(*   items the indexed elements of an array (a hole is Undef)              *)
(*   keys  the own property names of an object, in enumeration order; for  *)
(*         an array, its non-index (named) properties                      *)
(*   vals  the property values, aligned with keys                          *)
(* A path string is the sequence of its '.'-separated segments.            *)
(***************************************************************************)
EXTENDS Integers, Sequences, FiniteSets, TLC

\* ------------------------------------------------------------------ bounds
MaxLen == 3
MaxOps == 4
\* The number of calls the tool surface issues in one behaviour.
MaxCalls == 2

\* ------------------------------------------------------------ JS values
Str(s) == [k |-> "str", s |-> s, items |-> <<>>, keys |-> <<>>, vals |-> <<>>]
Arr(items) == [k |-> "arr", s |-> "", items |-> items, keys |-> <<>>, vals |-> <<>>]
Obj(keys, vals) == [k |-> "obj", s |-> "", items |-> <<>>, keys |-> keys, vals |-> vals]
Undef == [k |-> "undef", s |-> "", items |-> <<>>, keys |-> <<>>, vals |-> <<>>]
Null == [k |-> "null", s |-> "", items |-> <<>>, keys |-> <<>>, vals |-> <<>>]
Throw == [k |-> "throw", s |-> "", items |-> <<>>, keys |-> <<>>, vals |-> <<>>]
EmptyObj == Obj(<<>>, <<>>)

NaN == -1

IndexOf(seq, x) ==
  IF \E i \in 1..Len(seq) : seq[i] = x
  THEN CHOOSE i \in 1..Len(seq) : seq[i] = x
  ELSE 0

\* String(i) for an array index i.
Digits == <<"0", "1", "2", "3", "4", "5", "6">>
IndexName(i) == Digits[i + 1]

\* A property name that is a canonical array index ("0", "1", ...): the
\* names JavaScript treats as indexed elements of an array and enumerates
\* first, in ascending order, on an object.
IsIndexName(seg) == IndexOf(Digits, seg) > 0

\* parseInt(segment, 10) on the segments the model uses: leading decimal
\* digits are converted and whatever follows them is ignored ("2nd" is 2).
parseInt(seg) ==
  IF IsIndexName(seg) THEN IndexOf(Digits, seg) - 1
  ELSE IF seg = "2nd" THEN 2
  ELSE NaN

\* Length and characters of the strings the model uses (s.length, s[i]).
StrLen(s) ==
  CASE s = "" -> 0
    [] s = "New Item" -> 8
    [] s = "Description" -> 11
    [] OTHER -> 1
CharAt(s, i) ==
  CASE s = "New Item" -> <<"N", "e", "w", " ", "I", "t", "e">>[i + 1]
    [] s = "Description" -> <<"D", "e", "s", "c", "r", "i", "p">>[i + 1]
    [] OTHER -> s

\* current[key]: property read with a string key.
GetProp(cur, key) ==
  IF cur.k = "arr" /\ IsIndexName(key)
  THEN IF parseInt(key) < Len(cur.items) THEN cur.items[parseInt(key) + 1] ELSE Undef
  ELSE IF cur.k = "str"
  THEN IF IsIndexName(key) /\ parseInt(key) < StrLen(cur.s)
       THEN Str(CharAt(cur.s, parseInt(key))) ELSE Undef
  ELSE IF cur.k \in {"arr", "obj"} /\ IndexOf(cur.keys, key) > 0
       THEN cur.vals[IndexOf(cur.keys, key)]
       ELSE Undef

InsertAt(seq, i, x) == SubSeq(seq, 1, i - 1) \o <<x>> \o SubSeq(seq, i, Len(seq))

\* Where a new own property lands in the enumeration order of an object:
\* an index-like name goes among the index-like names in ascending order,
\* any other name goes last.
NewKeyPos(keys, key) ==
  IF IsIndexName(key)
  THEN 1 + Cardinality({i \in 1..Len(keys) :
                          IsIndexName(keys[i]) /\ parseInt(keys[i]) < parseInt(key)})
  ELSE Len(keys) + 1

\* Assignment of a named property (object, or non-index name on an array).
SetNamed(cur, key, v) ==
  IF IndexOf(cur.keys, key) > 0
  THEN [cur EXCEPT !.vals[IndexOf(cur.keys, key)] = v]
  ELSE [cur EXCEPT !.keys = InsertAt(cur.keys, NewKeyPos(cur.keys, key), key),
                   !.vals = InsertAt(cur.vals, NewKeyPos(cur.keys, key), v)]

\* arr[i] = v: writing at or past the length grows the array, leaving holes.
SetIndex(cur, i, v) ==
  IF i < Len(cur.items)
  THEN [cur EXCEPT !.items[i + 1] = v]
  ELSE [cur EXCEPT !.items =
          cur.items \o [j \in 1..(i - Len(cur.items)) |-> Undef] \o <<v>>]

\* current[key] = v with a string key.
SetProp(cur, key, v) ==
  IF cur.k = "arr" /\ IsIndexName(key)
  THEN SetIndex(cur, parseInt(key), v)
  ELSE SetNamed(cur, key, v)

\* ------------------------------------------------------- Path Addressor
RECURSIVE setNestedValue(_, _, _)
\* setNestedValue of /api/microtext and /api/ai-edit.  The result is the
\* tree after the call, or Throw: the routes are ES modules (strict mode),
\* so an assignment to a property of a string primitive, and any property
\* access on null, raises a TypeError.
setNestedValue(cur, parts, value) ==
  IF cur.k \notin {"arr", "obj"} THEN Throw
  ELSE IF Len(parts) = 1
  THEN IF parseInt(parts[1]) # NaN /\ cur.k = "arr"
       THEN SetIndex(cur, parseInt(parts[1]), value)
       ELSE SetProp(cur, parts[1], value)
  ELSE LET nextIsIndex == parseInt(parts[2]) # NaN
           child == IF GetProp(cur, parts[1]) = Undef
                    THEN (IF nextIsIndex THEN Arr(<<>>) ELSE EmptyObj)
                    ELSE GetProp(cur, parts[1])
           r == setNestedValue(child, Tail(parts), value)
       IN IF r = Throw THEN Throw ELSE SetProp(cur, parts[1], r)

RECURSIVE setNestedValueArr(_, _, _)
\* setNestedValue of /api/microtext-array: the last segment is always
\* assigned as a property name (no parseInt on it).
setNestedValueArr(cur, parts, value) ==
  IF cur.k \notin {"arr", "obj"} THEN Throw
  ELSE IF Len(parts) = 1
  THEN SetProp(cur, parts[1], value)
  ELSE LET nextIsIndex == parseInt(parts[2]) # NaN
           child == IF GetProp(cur, parts[1]) = Undef
                    THEN (IF nextIsIndex THEN Arr(<<>>) ELSE EmptyObj)
                    ELSE GetProp(cur, parts[1])
           r == setNestedValueArr(child, Tail(parts), value)
       IN IF r = Throw THEN Throw ELSE SetProp(cur, parts[1], r)

RECURSIVE getNestedValue(_, _)
\* getNestedValue: undefined as soon as the walk meets undefined or null.
getNestedValue(cur, parts) ==
  IF parts = <<>> THEN cur
  ELSE IF cur.k \in {"undef", "null"} THEN Undef
  ELSE LET index == parseInt(parts[1])
           next == IF index # NaN /\ cur.k = "arr"
                   THEN (IF index < Len(cur.items) THEN cur.items[index + 1] ELSE Undef)
                   ELSE GetProp(cur, parts[1])
       IN getNestedValue(next, Tail(parts))

\* ---------------------------------------------------- Flatten / Unflatten
\* A flat map (Record<string, string>) is the sequence of its entries
\* [path, value] in enumeration order.
FlatPaths(flat) == [i \in 1..Len(flat) |-> flat[i].path]

FlatPos(flat, path) == IndexOf(FlatPaths(flat), path)

\* The flat map's own key order: a key that is an index-like name (a
\* one-segment path "0", "1", ...) is enumerated before all other keys.
FlatNewPos(flat, path) ==
  IF Len(path) = 1 /\ IsIndexName(path[1])
  THEN 1 + Cardinality({i \in 1..Len(flat) :
                          /\ Len(flat[i].path) = 1
                          /\ IsIndexName(flat[i].path[1])
                          /\ parseInt(flat[i].path[1]) < parseInt(path[1])})
  ELSE Len(flat) + 1

\* result[fullKey] = value
FlatSet(flat, path, value) ==
  IF FlatPos(flat, path) > 0
  THEN [flat EXCEPT ![FlatPos(flat, path)].value = value]
  ELSE InsertAt(flat, FlatNewPos(flat, path), [path |-> path, value |-> value])

RECURSIVE FlatAssign(_, _)
\* Object.assign(result, more)
FlatAssign(flat, more) ==
  IF more = <<>> THEN flat
  ELSE FlatAssign(FlatSet(flat, more[1].path, more[1].value), Tail(more))

\* Object.entries(node): the indexed elements that are present, then the
\* named properties.
ObjectEntries(node) ==
  SelectSeq([i \in 1..Len(node.items) |->
               [key |-> IndexName(i - 1), value |-> node.items[i]]],
            LAMBDA e : e.value # Undef)
  \o [i \in 1..Len(node.keys) |-> [key |-> node.keys[i], value |-> node.vals[i]]]

\* The outcome of flattenMicrotext: ok = FALSE when it throws.
FlatOk(flat) == [ok |-> TRUE, flat |-> flat]
FlatThrow == [ok |-> FALSE, flat |-> <<>>]

RECURSIVE flattenMicrotext(_, _), FlattenEntries(_, _, _), FlattenItems(_, _, _, _)
\* flattenMicrotext(obj, prefix); Object.entries(null) throws a TypeError.
flattenMicrotext(obj, prefix) ==
  IF obj.k \notin {"arr", "obj"} THEN FlatThrow
  ELSE FlattenEntries(ObjectEntries(obj), prefix, <<>>)

\* The for-of loop over the entries, result so far in acc.
FlattenEntries(entries, prefix, acc) ==
  IF entries = <<>> THEN FlatOk(acc)
  ELSE LET fullKey == prefix \o <<entries[1].key>>
           value == entries[1].value
           step ==
             CASE value.k = "str" -> FlatOk(FlatSet(acc, fullKey, value.s))
               [] value.k = "arr" -> FlattenItems(value.items, 1, fullKey, acc)
               [] value.k = "obj" ->
                    LET sub == flattenMicrotext(value, fullKey)
                    IN IF sub.ok THEN FlatOk(FlatAssign(acc, sub.flat)) ELSE FlatThrow
               [] OTHER -> FlatOk(acc)
       IN IF step.ok THEN FlattenEntries(Tail(entries), prefix, step.flat) ELSE FlatThrow

\* value.forEach((item, index) => ...): forEach skips holes; typeof null is
\* 'object', so a null item is passed to flattenMicrotext.
FlattenItems(items, i, fullKey, acc) ==
  IF i > Len(items) THEN FlatOk(acc)
  ELSE LET item == items[i]
           itemKey == fullKey \o <<IndexName(i - 1)>>
           step ==
             CASE item.k = "str" -> FlatOk(FlatSet(acc, itemKey, item.s))
               [] item.k \in {"arr", "obj", "null"} ->
                    LET sub == flattenMicrotext(item, itemKey)
                    IN IF sub.ok THEN FlatOk(FlatAssign(acc, sub.flat)) ELSE FlatThrow
               [] OTHER -> FlatOk(acc)
       IN IF step.ok THEN FlattenItems(items, i + 1, fullKey, step.flat) ELSE FlatThrow

\* ------------------------------------------------------- Document Store
\* A content document as parsed by matter(): the content tree
\* (data.microtext), the other front-matter fields (title stands for all of
\* them) and the body.  NoFile is an absent file.
Doc(microtext, title, body) ==
  [exists |-> TRUE, microtext |-> microtext, title |-> title, body |-> body]
NoFile == [exists |-> FALSE, microtext |-> Undef, title |-> "", body |-> ""]

RECURSIVE HasHole(_), Dumped(_)
\* An array element that is undefined (a hole left by a sparse write).
HasHole(node) ==
  \/ \E i \in 1..Len(node.items) : node.items[i] = Undef \/ HasHole(node.items[i])
  \/ node.k = "obj" /\ \E i \in 1..Len(node.vals) : HasHole(node.vals[i])

\* What a YAML dump followed by a load keeps of a tree: the named
\* properties of arrays are not dumped; a hole, where the dumper accepts
\* it, comes back as null.
Dumped(node) ==
  CASE node.k = "arr" ->
         Arr([i \in 1..Len(node.items) |->
                IF node.items[i] = Undef THEN Null ELSE Dumped(node.items[i])])
    [] node.k = "obj" ->
         Obj(node.keys, [i \in 1..Len(node.vals) |-> Dumped(node.vals[i])])
    [] OTHER -> node

\* A stringify that stores the tree as it is in memory, gaps included.
StringifyKeepsHoles(tree) == {tree}

\* The outcomes of matter.stringify on a front matter whose content tree is
\* tree: the stored tree, or Throw.  Dumping an undefined array element is
\* left open by the source (sparse growth): the dumper either rejects it or
\* writes null.
Stringify(tree) ==
  IF tree = Throw THEN {Throw}
  ELSE IF HasHole(tree) THEN {Throw, Dumped(tree)}
  ELSE {Dumped(tree)}

\* !x for the values of the model.
Falsy(node) == node.k \in {"undef", "null"} \/ node = Str("")

\* POST /api/microtext, lines 109-112: ensure the microtext object exists.
EnsureMicrotext(microtext) == IF Falsy(microtext) THEN EmptyObj ELSE microtext

\* POST /api/microtext, lines 114-117: the old value.
MicrotextOld(microtext, id) ==
  IF Len(id) > 1
  THEN getNestedValue(EnsureMicrotext(microtext), id)
  ELSE GetProp(EnsureMicrotext(microtext), id[1])

\* POST /api/microtext, lines 119-124: the content tree after the update of
\* id to value, or Throw.
MicrotextUpdate(microtext, id, value) ==
  IF Len(id) > 1
  THEN setNestedValue(EnsureMicrotext(microtext), id, Str(value))
  ELSE IF EnsureMicrotext(microtext).k \in {"arr", "obj"}
       THEN SetProp(EnsureMicrotext(microtext), id[1], Str(value))
       ELSE Throw

\* ------------------------------------------------------------ Draft Cache
\* The key of a draft in localStorage, `vibe:${pageSlug}:${id}`, kept as the
\* pair it is built from.
getKey(pageSlug, id) == <<pageSlug, id>>

\* The pieces of a pageSlug between its ':' characters, for the slugs of
\* the model.
SplitColon(pageSlug) ==
  IF pageSlug = "home:x" THEN <<"home", "x">> ELSE <<pageSlug>>

RECURSIVE ColonJoin(_, _)
\* The pieces and the string s as one string, a ':' after every piece.
ColonJoin(pieces, s) ==
  IF pieces = <<>> THEN s ELSE pieces[1] \o ":" \o ColonJoin(Tail(pieces), s)

\* key.startsWith(`vibe:${pageSlug}:`), for keys whose id holds no ':': the
\* text of the key after `vibe:` starts with the slug and a ':' when the
\* pieces of the slug are the first pieces of the slug in the key.
KeyOfPage(key, pageSlug) ==
  /\ Len(SplitColon(pageSlug)) <= Len(SplitColon(key[1]))
  /\ SubSeq(SplitColon(key[1]), 1, Len(SplitColon(pageSlug))) = SplitColon(pageSlug)

\* key.slice(prefix.length): what follows the prefix, as the segments of an
\* id (the pieces of the key's slug the prefix did not cover come first).
KeyId(key, pageSlug) ==
  <<ColonJoin(SubSeq(SplitColon(key[1]), Len(SplitColon(pageSlug)) + 1,
                     Len(SplitColon(key[1]))),
              key[2][1])>> \o Tail(key[2])

\* A cache that keeps the first draft of a key and drops a later save.
saveDraftKeepsFirst(store, pageSlug, id, value, timestamp) ==
  [key \in DOMAIN store \cup {getKey(pageSlug, id)} |->
     IF key \in DOMAIN store THEN store[key]
     ELSE [value |-> value, timestamp |-> timestamp]]

\* localStorage.setItem(key, JSON.stringify({value, timestamp}))
saveDraft(store, pageSlug, id, value, timestamp) ==
  [key \in DOMAIN store \cup {getKey(pageSlug, id)} |->
     IF key = getKey(pageSlug, id)
     THEN [value |-> value, timestamp |-> timestamp]
     ELSE store[key]]

\* getPageDrafts: the drafts of a page, by id.
getPageDrafts(store, pageSlug) ==
  LET keys == {x \in DOMAIN store : KeyOfPage(x, pageSlug)}
  IN [id \in {KeyId(key, pageSlug) : key \in keys} |->
        store[CHOOSE key \in keys : KeyId(key, pageSlug) = id]]

\* localStorage.removeItem(key)
clearDraft(store, pageSlug, id) ==
  [key \in DOMAIN store \ {getKey(pageSlug, id)} |-> store[key]]

\* clearPageDrafts: remove every key that starts with the prefix of the
\* page.
clearPageDrafts(store, pageSlug) ==
  [key \in {x \in DOMAIN store : ~KeyOfPage(x, pageSlug)} |-> store[key]]

\* ------------------------------------------------------------------ inputs
Pages == {"home", "ghost"}

\* The page `home` of the scenario, with a features array; `ghost` has no
\* file.
HomeTree ==
  Obj(<<"hero", "features">>,
      <<Obj(<<"headline">>, <<Str("A")>>), Arr(<<Obj(<<"title">>, <<Str("F")>>)>>)>>)

HeroHeadline == <<"hero", "headline">>
FeatureTitle == <<"features", "0", "title">>

\* The ids a draft is saved under: a leaf of the page, a non-index name on
\* an array, and a path through a leaf.
DraftIds == {HeroHeadline, <<"features", "title">>, <<"hero", "headline", "x">>}
DraftValues == {"C", "D"}
DraftInputs ==
  {[id |-> HeroHeadline, value |-> v] : v \in DraftValues}
  \cup {[id |-> id, value |-> "C"] : id \in DraftIds \ {HeroHeadline}}

\* The fields another writer (the edit_microtext tool, another editor)
\* sets directly.
ToolIds == {HeroHeadline, <<"cta">>}
ToolValues == {"B"}

\* The ids of the direct field writes to the Document Store: those of the
\* other writer, a field name below the array features, and the object
\* hero as a whole.
StoreIds == ToolIds \cup {<<"features", "title">>, <<"hero">>}

\* The new values the instruction interpreter proposes.
AiValues == {"E"}

\* The inputs of the array route.
ArrayInputs ==
  {[arrayPath |-> <<"features">>, action |-> "add", index |-> 0, template |-> Undef],
   [arrayPath |-> <<"features">>, action |-> "add", index |-> 0, template |-> Str("T")],
   [arrayPath |-> <<"features">>, action |-> "remove", index |-> 0, template |-> Undef],
   [arrayPath |-> <<"features">>, action |-> "remove", index |-> 1, template |-> Undef]}

\* ------------------------------------------------------------------- state
VARIABLES
  file,          \* pageSlug -> the content document stored for it
  localStorage,  \* the Draft Cache: key -> DraftEdit
  now,           \* Date.now()
  req,           \* the POST /api/microtext calls in flight, by caller
  sync,          \* the syncDraftsToServer call of the client
  ops,           \* calls made so far (saves, syncs, requests of other writers)
  lastSave,      \* history: key -> value of the latest saveDraft
  lastWriter,    \* history: the call that wrote `file` last
  hist,          \* history: what the previous sync run did
  ai,            \* the POST /api/ai-edit call in flight
  arr,           \* the POST /api/microtext-array call in flight
  fn,            \* a flatten / setNestedValue round trip and its result
  prev,          \* history: the last write, its call and the trees around it
  git,           \* the repository: committed tree, index and commit log
  pub,           \* the POST /api/publish calls in flight, by caller
  io,            \* a call's way from its pageSlug to the files it reads and writes
  mcp,           \* the tool server: the tool call being answered and its result
  ui             \* the SyncButton: the draft count it shows, and whether it is syncing

vars == <<file, localStorage, now, req, sync, ops, lastSave, lastWriter, hist, ai, arr, fn,
          prev, git, pub, io, mcp, ui>>

Slots == {"sync", "tool"}

EmptyStore == [key \in {} |-> 0]

IdleReq ==
  [pc |-> "idle", pageSlug |-> "", id |-> <<>>, value |-> "",
   data |-> NoFile, status |-> 0, previousValue |-> Undef]

IdleSync ==
  [pc |-> "idle", pageSlug |-> "", drafts |-> EmptyStore, todo |-> {},
   cur |-> <<>>, sent |-> EmptyStore, errors |-> <<>>, synced |-> 0, quiet |-> FALSE]

IdleAi ==
  [pc |-> "idle", pageSlug |-> "", apply |-> FALSE, flat |-> <<>>, changes |-> <<>>,
   data |-> NoFile, status |-> 0, applied |-> FALSE]

IdleArr ==
  [pc |-> "idle", pageSlug |-> "", arrayPath |-> <<>>, action |-> "", index |-> 0,
   template |-> Undef, data |-> NoFile, status |-> 0, item |-> Undef, newLength |-> 0]

IdleFn == [pc |-> "idle", T |-> Undef, flat |-> <<>>, tree |-> Undef]

\* The last write to a file: the route that made it, the call it served,
\* the content tree the file held just before and the tree written, and
\* whether the write before it served an equal call of the same route.
Written(by, call, before, after) ==
  [by |-> by, call |-> call, before |-> before, after |-> after,
   again |-> prev.by = by /\ prev.call = call]
NoWrite ==
  [by |-> "none", call |-> <<>>, before |-> Undef, after |-> Undef, again |-> FALSE]

\* A file name: the directory it is in and its name without `.mdx`.
NoPath == [dir |-> <<>>, base |-> ""]

\* No call has resolved a pageSlug yet.
IdleIo ==
  [pc |-> "idle", route |-> "", slug |-> <<>>, real |-> NoPath, status |-> 0,
   read |-> {}, written |-> {}]

\* The response body of a call not yet answered.
NoBody == [b \in {} |-> 0]

\* What the tool server returns for a call: the JSON text, and isError,
\* which the server sets to true for a failure and leaves out otherwise.
ToolResult(isError, text) == [isError |-> isError, text |-> text]

\* The tool server between calls; failed (history) tells whether the call
\* answered last had failed.
IdleMcp ==
  [pc |-> "idle", name |-> "", failed |-> FALSE, result |-> ToolResult(FALSE, NoBody)]


\* The clients that publish.
Publishers == {"p1", "p2"}

\* A publish call: the message sent, what `git status` listed, the answer,
\* and (history) the files that differed from the last commit on arrival.
IdlePub ==
  [pc |-> "idle", message |-> Undef, invoked |-> {}, status |-> {}, code |-> 0,
   body |-> NoBody]

\* The repository over src/pages/: the tree of the last commit (HEAD), the
\* index, the commits made, and (history) the files that differed from
\* HEAD when `git add` last ran.
Repo(tree) == [head |-> tree, index |-> tree, log |-> <<>>, added |-> {}]

\* The SyncButton as mounted on a page without drafts.
IdleUi == [draftCount |-> 0, syncing |-> FALSE]

NoHist == [dirty |-> FALSE, retry |-> FALSE, prevFailed |-> {}, prevSynced |-> {}]

Init ==
  /\ file = [p \in Pages |-> IF p = "home" THEN Doc(HomeTree, "T", "body") ELSE NoFile]
  /\ localStorage = EmptyStore
  /\ now = 0
  /\ req = [r \in Slots |-> IdleReq]
  /\ sync = IdleSync
  /\ ops = 0
  /\ lastSave = EmptyStore
  /\ lastWriter = "none"
  /\ hist = NoHist
  /\ ai = IdleAi
  /\ arr = IdleArr
  /\ fn = IdleFn
  /\ prev = NoWrite
  /\ git = Repo(file)
  /\ pub = [c \in Publishers |-> IdlePub]
  /\ io = IdleIo
  /\ mcp = IdleMcp
  /\ ui = IdleUi

\* ------------------------------------------------- POST /api/microtext
\* The route up to the end of `await fs.readFile`: 404 when realpath finds
\* no file, else the file content as read.
PostRead(r) ==
  /\ req[r].pc = "recv"
  /\ req' = [req EXCEPT ![r] =
       IF file[req[r].pageSlug].exists
       THEN [@ EXCEPT !.pc = "read", !.data = file[req[r].pageSlug]]
       ELSE [@ EXCEPT !.pc = "resp", !.status = 404]]
  /\ UNCHANGED <<file, localStorage, now, sync, ops, lastSave, lastWriter, hist, ai, arr, fn, prev, git, pub, io, mcp, ui>>

\* A route that writes the content tree and drops the body.
PostFileNoBody(data, tree) == Doc(tree, data.title, "")

\* What the route writes for the document it read: the document with the
\* content tree replaced, title and body passed through.
PostFile(data, tree) == Doc(tree, data.title, data.body)

\* A route that updates the tree the file holds when it writes, not the
\* tree it read.
PostWriteLive(r) ==
  /\ req[r].pc = "read"
  /\ \E out \in Stringify(MicrotextUpdate(file[req[r].pageSlug].microtext,
                                          req[r].id, req[r].value)) :
       IF out = Throw
       THEN /\ req' = [req EXCEPT ![r].pc = "resp", ![r].status = 500]
            /\ UNCHANGED <<file, lastWriter, sync, ai, arr, prev>>
       ELSE /\ file' = [file EXCEPT ![req[r].pageSlug] = PostFile(file[req[r].pageSlug], out)]
            /\ req' = [req EXCEPT ![r].pc = "resp", ![r].status = 200,
                                  ![r].previousValue =
                                     MicrotextOld(req[r].data.microtext, req[r].id)]
            /\ lastWriter' = r
            /\ prev' = Written(r, <<req[r].pageSlug, req[r].id, req[r].value>>,
                               file[req[r].pageSlug].microtext, out)
            /\ sync' = IF r = "sync" THEN sync ELSE [sync EXCEPT !.quiet = FALSE]
  /\ UNCHANGED <<localStorage, now, ops, lastSave, hist, ai, arr, fn, git, pub, io, mcp, ui>>

\* The rest of the route: update the tree that was read, stringify, write
\* the file, answer 200; any exception is answered 500 with nothing written.
PostWrite(r) ==
  /\ req[r].pc = "read"
  /\ \E out \in Stringify(MicrotextUpdate(req[r].data.microtext, req[r].id, req[r].value)) :
       IF out = Throw
       THEN /\ req' = [req EXCEPT ![r].pc = "resp", ![r].status = 500]
            /\ UNCHANGED <<file, lastWriter, sync, ai, arr, prev>>
       ELSE /\ file' = [file EXCEPT ![req[r].pageSlug] = PostFile(req[r].data, out)]
            /\ req' = [req EXCEPT ![r].pc = "resp", ![r].status = 200,
                                  ![r].previousValue =
                                     MicrotextOld(req[r].data.microtext, req[r].id)]
            /\ lastWriter' = r
            /\ prev' = Written(r, <<req[r].pageSlug, req[r].id, req[r].value>>,
                               file[req[r].pageSlug].microtext, out)
            /\ sync' = IF r = "sync" THEN sync ELSE [sync EXCEPT !.quiet = FALSE]
  /\ UNCHANGED <<localStorage, now, ops, lastSave, hist, ai, arr, fn, git, pub, io, mcp, ui>>

\* Another writer calls setField directly.
ToolSend(pageSlug, id, value) ==
  /\ req["tool"].pc = "idle"
  /\ ops < MaxOps
  /\ ops' = ops + 1
  /\ req' = [req EXCEPT !["tool"] =
       [IdleReq EXCEPT !.pc = "recv", !.pageSlug = pageSlug, !.id = id, !.value = value]]
  /\ UNCHANGED <<file, localStorage, now, sync, lastSave, lastWriter, hist, ai, arr, fn, prev, git, pub, io, mcp, ui>>

\* A direct setField call of the tool surface.
ToolCall(pageSlug, id, value) ==
  /\ ops < MaxCalls
  /\ ToolSend(pageSlug, id, value)

\* The other writer receives its answer.
ToolDone ==
  /\ req["tool"].pc = "resp"
  /\ req' = [req EXCEPT !["tool"] = IdleReq]
  /\ UNCHANGED <<file, localStorage, now, sync, ops, lastSave, lastWriter, hist, ai, arr, fn, prev, git, pub, io, mcp, ui>>

\* ----------------------------------------------------- POST /api/ai-edit
\* const { instruction, pageSlug, apply = false } = body: a request that
\* leaves apply out gets false.
ApplyOf(given, apply) == IF given THEN apply ELSE FALSE

\* The instruction route starts: {instruction, pageSlug, apply}.
AiSend(pageSlug, apply) ==
  /\ ai.pc = "idle"
  /\ ops < MaxCalls
  /\ ops' = ops + 1
  /\ ai' = [IdleAi EXCEPT !.pc = "recv", !.pageSlug = pageSlug, !.apply = apply]
  /\ UNCHANGED <<file, localStorage, now, req, sync, lastSave, lastWriter, hist, arr, fn, prev, git, pub, io, mcp, ui>>

\* Lines 624-648: read the file (404 when absent, 400 without microtext)
\* and flatten the content tree for the interpreter.
AiRead ==
  /\ ai.pc = "recv"
  /\ LET data == file[ai.pageSlug]
         flat == flattenMicrotext(data.microtext, <<>>)
     IN ai' = IF ~data.exists THEN [ai EXCEPT !.pc = "resp", !.status = 404]
              ELSE IF Falsy(data.microtext) THEN [ai EXCEPT !.pc = "resp", !.status = 400]
              ELSE IF ~flat.ok THEN [ai EXCEPT !.pc = "resp", !.status = 500]
              ELSE [ai EXCEPT !.pc = "interp", !.flat = flat.flat]
  /\ UNCHANGED <<file, localStorage, now, req, sync, ops, lastSave, lastWriter, hist, arr, fn, prev, git, pub, io, mcp, ui>>

RECURSIVE ProposedChanges(_)
\* What interpretInstruction may return for the flat map it was given: for
\* any of the entries, in order, a change {id, oldValue, newValue} whose
\* oldValue is the value the interpreter was shown.
ProposedChanges(flat) ==
  IF flat = <<>> THEN {<<>>}
  ELSE LET rest == ProposedChanges(Tail(flat))
       IN rest \cup
          {<<[id |-> flat[1].path, oldValue |-> flat[1].value, newValue |-> v]>> \o cs :
             v \in AiValues, cs \in rest}

\* A route that applies the changes whatever the caller asked for.
AiInterpretAlwaysApplies ==
  /\ ai.pc = "interp"
  /\ \E changes \in ProposedChanges(ai.flat), failed \in BOOLEAN :
     ai' = IF failed THEN [ai EXCEPT !.pc = "resp", !.status = 500]
           ELSE IF changes = <<>>
           THEN [ai EXCEPT !.pc = "resp", !.status = 200, !.changes = changes]
           ELSE [ai EXCEPT !.pc = "apply", !.changes = changes]
  /\ UNCHANGED <<file, localStorage, now, req, sync, ops, lastSave, lastWriter, hist, arr, fn, prev, git, pub, io, mcp, ui>>

\* Lines 650-668: the interpreter answers (or fails: 500); no change ends
\* the call, and so does a preview; with apply the changes go to
\* applyChanges.
AiInterpret ==
  /\ ai.pc = "interp"
  /\ \E changes \in ProposedChanges(ai.flat), failed \in BOOLEAN :
     ai' = IF failed THEN [ai EXCEPT !.pc = "resp", !.status = 500]
           ELSE IF changes = <<>> \/ ~ai.apply
           THEN [ai EXCEPT !.pc = "resp", !.status = 200, !.changes = changes]
           ELSE [ai EXCEPT !.pc = "apply", !.changes = changes]
  /\ UNCHANGED <<file, localStorage, now, req, sync, ops, lastSave, lastWriter, hist, arr, fn, prev, git, pub, io, mcp, ui>>

\* applyChanges, lines 566-574: read the file again.
AiApplyRead ==
  /\ ai.pc = "apply"
  /\ ai' = IF file[ai.pageSlug].exists /\ ~Falsy(file[ai.pageSlug].microtext)
            THEN [ai EXCEPT !.pc = "write", !.data = file[ai.pageSlug]]
            ELSE [ai EXCEPT !.pc = "resp", !.status = 500]
  /\ UNCHANGED <<file, localStorage, now, req, sync, ops, lastSave, lastWriter, hist, arr, fn, prev, git, pub, io, mcp, ui>>

RECURSIVE applyChanges(_, _)
\* applyChanges, lines 576-579: every change is written with
\* setNestedValue; the result is the tree, or Throw.
applyChanges(tree, changes) ==
  IF changes = <<>> \/ tree = Throw THEN tree
  ELSE applyChanges(setNestedValue(tree, changes[1].id, Str(changes[1].newValue)),
                    Tail(changes))

\* applyChanges, lines 581-583, and the response of the route.
AiApplyWrite ==
  /\ ai.pc = "write"
  /\ \E out \in Stringify(applyChanges(ai.data.microtext, ai.changes)) :
       IF out = Throw
       THEN /\ ai' = [ai EXCEPT !.pc = "resp", !.status = 500]
            /\ UNCHANGED <<file, lastWriter, sync, prev>>
       ELSE /\ file' = [file EXCEPT ![ai.pageSlug] = PostFile(ai.data, out)]
            /\ ai' = [ai EXCEPT !.pc = "resp", !.status = 200, !.applied = TRUE]
            /\ lastWriter' = "ai"
            /\ prev' = Written("ai", <<ai.pageSlug>>, file[ai.pageSlug].microtext, out)
            /\ sync' = [sync EXCEPT !.quiet = FALSE]
  /\ UNCHANGED <<localStorage, now, req, ops, lastSave, hist, arr, fn, git, pub, io, mcp, ui>>

AiDone ==
  /\ ai.pc = "resp"
  /\ ai' = IdleAi
  /\ UNCHANGED <<file, localStorage, now, req, sync, ops, lastSave, lastWriter, hist, arr, fn, prev, git, pub, io, mcp, ui>>

\* ----------------------------------------------- POST /api/microtext-array
ArrSend(pageSlug, arrayPath, action, index, template) ==
  /\ arr.pc = "idle"
  /\ ops < MaxCalls
  /\ ops' = ops + 1
  /\ arr' = [IdleArr EXCEPT !.pc = "recv", !.pageSlug = pageSlug, !.arrayPath = arrayPath,
                            !.action = action, !.index = index, !.template = template]
  /\ UNCHANGED <<file, localStorage, now, req, sync, lastSave, lastWriter, hist, ai, fn, prev, git, pub, io, mcp, ui>>

\* getFilePath and `await fs.readFile`: 404 when the page has no file.
ArrRead ==
  /\ arr.pc = "recv"
  /\ arr' = IF file[arr.pageSlug].exists
             THEN [arr EXCEPT !.pc = "read", !.data = file[arr.pageSlug]]
             ELSE [arr EXCEPT !.pc = "resp", !.status = 404]
  /\ UNCHANGED <<file, localStorage, now, req, sync, ops, lastSave, lastWriter, hist, ai, fn, prev, git, pub, io, mcp, ui>>

\* Lines 257-261: get or create the array.
ArrayAt(microtext, arrayPath) ==
  IF getNestedValue(EnsureMicrotext(microtext), arrayPath).k = "arr"
  THEN getNestedValue(EnsureMicrotext(microtext), arrayPath)
  ELSE Arr(<<>>)

\* An add that ignores the template.
NewItemAlwaysDefault(template) ==
  Obj(<<"title", "desc">>, <<Str("New Item"), Str("Description")>>)

\* Line 267: template || {title: 'New Item', desc: 'Description'}
NewItem(template) ==
  IF Falsy(template)
  THEN Obj(<<"title", "desc">>, <<Str("New Item"), Str("Description")>>)
  ELSE template

\* A remove that drops the last item, whatever the index.
SpliceLast(a, index) == [a EXCEPT !.items = SubSeq(a.items, 1, Len(a.items) - 1)]

\* A remove that leaves the array as it is.
SpliceNothing(a, index) == a

\* arr.splice(index, 1)
Splice(a, index) ==
  [a EXCEPT !.items = SubSeq(a.items, 1, index) \o SubSeq(a.items, index + 2, Len(a.items))]

\* A route that removes the last item when the index is out of bounds.
ArrayOpClamps(microtext, arrayPath, action, index, template) ==
  LET a == ArrayAt(microtext, arrayPath)
      after == IF action = "add"
               THEN [a EXCEPT !.items = Append(a.items, NewItem(template))]
               ELSE SpliceLast(a, index)
  IN [ok |-> TRUE,
      index |-> IF action = "add" THEN Len(a.items) ELSE index,
      item |-> IF action = "add" THEN NewItem(template) ELSE Undef,
      newLength |-> Len(after.items),
      tree |-> setNestedValueArr(EnsureMicrotext(microtext), arrayPath, after)]

\* Lines 265-283: the array after the action, written back at arrayPath.
\* ok = FALSE is the out-of-bounds answer of remove.
ArrayOp(microtext, arrayPath, action, index, template) ==
  LET a == ArrayAt(microtext, arrayPath)
      oob == action = "remove" /\ (index < 0 \/ index >= Len(a.items))
      after == IF action = "add"
               THEN [a EXCEPT !.items = Append(a.items, NewItem(template))]
               ELSE IF oob THEN a ELSE Splice(a, index)
  IN [ok |-> ~oob,
      index |-> IF action = "add" THEN Len(a.items) ELSE index,
      item |-> IF action = "add" THEN NewItem(template)
               ELSE IF oob THEN Undef ELSE a.items[index + 1],
      newLength |-> Len(after.items),
      tree |-> IF oob THEN microtext
               ELSE setNestedValueArr(EnsureMicrotext(microtext), arrayPath, after)]

\* The rest of the route: 400 out of bounds, else stringify and write.
ArrWrite ==
  /\ arr.pc = "read"
  /\ LET r == ArrayOp(arr.data.microtext, arr.arrayPath, arr.action, arr.index, arr.template)
     IN IF ~r.ok
        THEN /\ arr' = [arr EXCEPT !.pc = "resp", !.status = 400]
             /\ UNCHANGED <<file, lastWriter, sync, prev>>
        ELSE \E out \in Stringify(r.tree) :
          IF out = Throw
          THEN /\ arr' = [arr EXCEPT !.pc = "resp", !.status = 500]
               /\ UNCHANGED <<file, lastWriter, sync, prev>>
          ELSE /\ file' = [file EXCEPT ![arr.pageSlug] = PostFile(arr.data, out)]
               /\ arr' = [arr EXCEPT !.pc = "resp", !.status = 200, !.index = r.index,
                                     !.item = r.item, !.newLength = r.newLength]
               /\ lastWriter' = "arr"
               /\ prev' = Written("arr", <<arr.pageSlug, arr.arrayPath, arr.action,
                                           arr.index, arr.template>>,
                                  file[arr.pageSlug].microtext, out)
               /\ sync' = [sync EXCEPT !.quiet = FALSE]
  /\ UNCHANGED <<localStorage, now, req, ops, lastSave, hist, ai, fn, git, pub, io, mcp, ui>>

ArrDone ==
  /\ arr.pc = "resp"
  /\ arr' = IdleArr
  /\ UNCHANGED <<file, localStorage, now, req, sync, ops, lastSave, lastWriter, hist, ai, fn, prev, git, pub, io, mcp, ui>>

\* The Document Store and the Tool Surface: direct field writes, array
\* operations and instruction edits, issued concurrently.
Next ==
  \/ \E p \in Pages, id \in StoreIds, v \in ToolValues : ToolCall(p, id, v)
  \/ PostRead("tool")
  \/ PostWrite("tool")
  \/ ToolDone
  \/ \E p \in Pages, given \in BOOLEAN, apply \in BOOLEAN : AiSend(p, ApplyOf(given, apply))
  \/ AiRead
  \/ AiInterpret
  \/ AiApplyRead
  \/ AiApplyWrite
  \/ AiDone
  \/ \E p \in Pages, in \in ArrayInputs :
       ArrSend(p, in.arrayPath, in.action, in.index, in.template)
  \/ ArrRead
  \/ ArrWrite
  \/ ArrDone

Spec == Init /\ [][Next]_vars

\* ------------------------------------------------------ array operations
\* A list of k distinct items, as the page renders its features.
FeatureList(k) == Arr([i \in 1..k |-> Obj(<<"title">>, <<Str(IndexName(i - 1))>>)])

\* The documents of page home: features is a list of 0 to MaxLen items.
ArrayTrees ==
  {Obj(<<"hero", "features">>, <<Obj(<<"headline">>, <<Str("A")>>), FeatureList(k)>>) :
     k \in 0..MaxLen}

\* The calls of the array route: add with and without a template, remove
\* at every index from -1 to MaxLen.
ArrayCalls ==
  {[arrayPath |-> <<"features">>, action |-> "add", index |-> 0, template |-> t] :
     t \in {Undef, Str("T")}}
  \cup {[arrayPath |-> <<"features">>, action |-> "remove", index |-> i, template |-> Undef] :
          i \in (0 - 1)..MaxLen}

InitArr ==
  /\ \E T \in ArrayTrees :
       file = [p \in Pages |-> IF p = "home" THEN Doc(T, "T", "body") ELSE NoFile]
  /\ localStorage = EmptyStore
  /\ now = 0
  /\ req = [r \in Slots |-> IdleReq]
  /\ sync = IdleSync
  /\ ops = 0
  /\ lastSave = EmptyStore
  /\ lastWriter = "none"
  /\ hist = NoHist
  /\ ai = IdleAi
  /\ arr = IdleArr
  /\ fn = IdleFn
  /\ prev = NoWrite
  /\ git = Repo(file)
  /\ pub = [c \in Publishers |-> IdlePub]
  /\ io = IdleIo
  /\ mcp = IdleMcp
  /\ ui = IdleUi

\* Array operations one after the other, on every list.
NextArr ==
  \/ \E in \in ArrayCalls : ArrSend("home", in.arrayPath, in.action, in.index, in.template)
  \/ ArrRead
  \/ ArrWrite
  \/ ArrDone

SpecArr == InitArr /\ [][NextArr]_vars

\* ------------------------------------ field writes and array operations
\* Field writes at every index of the features list, past its end, and at
\* a field name that starts with a digit.
SparseIds ==
  {<<"features", IndexName(i)>> : i \in 0..(MaxLen + 1)} \cup {<<"features", "2nd">>}

\* The calls of the array route on features, and an add where arrayPath
\* holds an object (hero), a string (hero.headline) and nothing (cta).
MixCalls ==
  ArrayCalls \cup
  {[arrayPath |-> ap, action |-> "add", index |-> 0, template |-> Undef] :
     ap \in {<<"hero">>, HeroHeadline, <<"cta">>}}

\* Field writes and array operations in any order, on every list.
NextMix ==
  \/ \E id \in SparseIds, v \in ToolValues : ToolCall("home", id, v)
  \/ PostRead("tool")
  \/ PostWrite("tool")
  \/ ToolDone
  \/ \E in \in MixCalls : ArrSend("home", in.arrayPath, in.action, in.index, in.template)
  \/ ArrRead
  \/ ArrWrite
  \/ ArrDone

SpecMix == InitArr /\ [][NextMix]_vars

\* ---------------------------------------------------- POST /api/publish
\* The content files that differ from the last committed state.
Pending == {p \in DOMAIN file : file[p] # git.head[p]}

\* A listing of the unstaged changes only (working copy against index).
GitDiffOnly == {p \in DOMAIN file : git.index[p] # file[p]}

\* git status --porcelain src/pages/: one line per content file whose
\* working copy, index entry and committed version are not all the same.
GitStatus == {p \in DOMAIN file : git.head[p] # git.index[p] \/ git.index[p] # file[p]}

\* A `git add` that stages one of the changed files only.
GitAddOne(index, work) ==
  IF \E p \in DOMAIN work : work[p] # index[p]
  THEN LET q == CHOOSE p \in DOMAIN work : work[p] # index[p]
       IN [index EXCEPT ![q] = work[q]]
  ELSE index

\* git add src/pages/: the index entry of every content file becomes its
\* working copy.
GitAdd(index, work) == work

\* body.message || `Content update ${new Date().toISOString()}`
CommitMessage(message) == IF Falsy(message) THEN Str("Content update") ELSE message

\* A client posts {message} to the route; request.json() is awaited.
PubSend(c, message) ==
  /\ pub[c].pc = "idle"
  /\ ops < MaxCalls
  /\ ops' = ops + 1
  /\ pub' = [pub EXCEPT ![c] =
       [IdlePub EXCEPT !.pc = "recv", !.message = message, !.invoked = Pending]]
  /\ UNCHANGED <<file, localStorage, now, req, sync, lastSave, lastWriter, hist, ai, arr, fn,
                 prev, git, io, mcp, ui>>

\* await git status: an empty listing is answered at once, else the route
\* goes on with the listing it got.
PubStatus(c) ==
  /\ pub[c].pc = "recv"
  /\ pub' = [pub EXCEPT ![c] =
       IF GitStatus = {}
       THEN [@ EXCEPT !.pc = "resp", !.code = 200,
                      !.body = [success |-> TRUE, message |-> "No changes to publish"]]
       ELSE [@ EXCEPT !.pc = "status", !.status = GitStatus]]
  /\ UNCHANGED <<file, localStorage, now, req, sync, ops, lastSave, lastWriter, hist, ai, arr,
                 fn, prev, git, io, mcp, ui>>

\* await git add src/pages/
PubAdd(c) ==
  /\ pub[c].pc = "status"
  /\ git' = [git EXCEPT !.index = GitAdd(git.index, file), !.added = Pending]
  /\ pub' = [pub EXCEPT ![c].pc = "added"]
  /\ UNCHANGED <<file, localStorage, now, req, sync, ops, lastSave, lastWriter, hist, ai, arr,
                 fn, prev, io, mcp, ui>>

\* A route that answers 500 for a failed command after the commit was
\* already made.
PubCommitThenFail(c) ==
  /\ pub[c].pc = "added"
  /\ \E fails \in BOOLEAN :
       /\ pub' = [pub EXCEPT ![c].pc = "resp", ![c].code = 500,
                             ![c].body = [error |-> "Publish failed"]]
       /\ IF fails \/ git.index = git.head
          THEN UNCHANGED git
          ELSE git' = [git EXCEPT
                 !.head = git.index,
                 !.log = Append(@, [by |-> c, message |-> CommitMessage(pub[c].message),
                                    files |-> {p \in DOMAIN git.index :
                                                 git.index[p] # git.head[p]}])]
  /\ UNCHANGED <<file, localStorage, now, req, sync, ops, lastSave, lastWriter, hist, ai, arr,
                 fn, prev, io, mcp, ui>>

\* await git commit -m message, then the answer.  The commit takes the
\* whole index; git refuses it when the index equals HEAD, and the command
\* may fail for other reasons (a hook, a lock, the quoting of the message):
\* every failure is answered 500.
PubCommit(c) ==
  /\ pub[c].pc = "added"
  /\ \E fails \in BOOLEAN :
       IF fails \/ git.index = git.head
       THEN /\ pub' = [pub EXCEPT ![c].pc = "resp", ![c].code = 500,
                                  ![c].body = [error |-> "Publish failed"]]
            /\ UNCHANGED git
       ELSE /\ git' = [git EXCEPT
                 !.head = git.index,
                 !.log = Append(@, [by |-> c, message |-> CommitMessage(pub[c].message),
                                    files |-> {p \in DOMAIN git.index :
                                                 git.index[p] # git.head[p]}])]
            /\ pub' = [pub EXCEPT ![c].pc = "resp", ![c].code = 200,
                                  ![c].body = [success |-> TRUE, message |-> "Published",
                                               filesChanged |-> Cardinality(pub[c].status)]]
  /\ UNCHANGED <<file, localStorage, now, req, sync, ops, lastSave, lastWriter, hist, ai, arr,
                 fn, prev, io, mcp, ui>>

\* GET /api/publish: git status once, answered with the number of lines.
PubQuery(c) ==
  /\ pub[c].pc = "idle"
  /\ pub' = [pub EXCEPT ![c] =
       [IdlePub EXCEPT !.pc = "resp", !.code = 200,
                       !.body = [unpublishedChanges |-> Cardinality(GitStatus)]]]
  /\ UNCHANGED <<file, localStorage, now, req, sync, ops, lastSave, lastWriter, hist, ai, arr,
                 fn, prev, git, io, mcp, ui>>

\* The client receives the answer.
PubDone(c) ==
  /\ pub[c].pc = "resp"
  /\ pub' = [pub EXCEPT ![c] = IdlePub]
  /\ UNCHANGED <<file, localStorage, now, req, sync, ops, lastSave, lastWriter, hist, ai, arr,
                 fn, prev, git, io, mcp, ui>>

\* The pages of the publish scenario, both committed.
PubPages == {"home", "about"}
Committed == [p \in PubPages |-> Doc(HomeTree, "T", "body")]

\* The headlines an editor sets; "A" is the committed one.
PubValues == {"A", "B"}

\* The messages a client sends: none, or one of its own.
PubMessages == {Undef, Str("m")}

\* The repository holds the committed pages; the working copy of each
\* page is the committed one or one with the headline edited.
InitPub ==
  /\ \E edited \in SUBSET PubPages :
       file = [p \in PubPages |->
                 IF p \in edited
                 THEN PostFile(Committed[p], setNestedValue(HomeTree, HeroHeadline, Str("B")))
                 ELSE Committed[p]]
  /\ localStorage = EmptyStore
  /\ now = 0
  /\ req = [r \in Slots |-> IdleReq]
  /\ sync = IdleSync
  /\ ops = 0
  /\ lastSave = EmptyStore
  /\ lastWriter = "none"
  /\ hist = NoHist
  /\ ai = IdleAi
  /\ arr = IdleArr
  /\ fn = IdleFn
  /\ prev = NoWrite
  /\ git = Repo(Committed)
  /\ pub = [c \in Publishers |-> IdlePub]
  /\ io = IdleIo
  /\ mcp = IdleMcp
  /\ ui = IdleUi

\* Publish calls of two clients while an editor writes fields.
NextPub ==
  \/ \E p \in PubPages, v \in PubValues : ToolCall(p, HeroHeadline, v)
  \/ PostRead("tool")
  \/ PostWrite("tool")
  \/ ToolDone
  \/ \E c \in Publishers, m \in PubMessages : PubSend(c, m)
  \/ \E c \in Publishers : PubStatus(c)
  \/ \E c \in Publishers : PubAdd(c)
  \/ \E c \in Publishers : PubCommit(c)
  \/ \E c \in Publishers : PubQuery(c)
  \/ \E c \in Publishers : PubDone(c)

SpecPub == InitPub /\ [][NextPub]_vars

\* ------------------------------------------------- pageSlug to file
\* Paths are sequences of names.  A pageSlug is a relative path written
\* with `/`; a file is dir/base.mdx.
FileAt(dir, base) == [dir |-> dir, base |-> base]

\* process.cwd() and PAGES_DIR = path.join(process.cwd(), 'src/pages').
Cwd == <<"app">>
PAGES_DIR == Cwd \o <<"src", "pages">>

\* A directory next to the content root whose name begins with the name of
\* the content root.
PagesTwin == Cwd \o <<"src", "pages2">>

\* The files on disk: two pages (home.mdx, sub/index.mdx), a file of the
\* project outside the content root, and a file in the directory next to
\* it.
RegularFiles ==
  {FileAt(PAGES_DIR, "home"), FileAt(PAGES_DIR \o <<"sub">>, "index"),
   FileAt(Cwd, "secret"), FileAt(PagesTwin, "twin")}

\* The symbolic links in the content root: out.mdx leads out of it,
\* twin.mdx into the directory next to it.
Symlinks == {FileAt(PAGES_DIR, "out"), FileAt(PAGES_DIR, "twin")}
ReadLink(f) == IF f.base = "out" THEN FileAt(Cwd, "secret") ELSE FileAt(PagesTwin, "twin")

\* The answer of the file system for a name that goes through a regular
\* file as if it were a directory (ENOTDIR).
NotDir == [dir |-> <<>>, base |-> "ENOTDIR"]

\* The directory names that go through the regular file home.mdx.
ThroughFile(dir) ==
  \E n \in 1..Len(dir) : SubSeq(dir, 1, n) = PAGES_DIR \o <<"home.mdx">>

\* A lookup that threw: ENOENT or ENOTDIR.
Missing(real) == real \in {NoPath, NotDir}

\* fs.realpath(filePath): the file a name leads to, NoPath for ENOENT.
realpath(f) ==
  IF ThroughFile(f.dir) THEN NotDir
  ELSE IF f \in Symlinks THEN ReadLink(f)
  ELSE IF f \in RegularFiles THEN f
  ELSE NoPath

\* path.normalize(slug) for a relative path: a `..` takes back the name
\* before it, leading `..` stay, and the empty result is `.`.
RECURSIVE NormalizeOnto(_, _)
NormalizeOnto(acc, segs) ==
  IF segs = <<>> THEN acc
  ELSE IF Head(segs) = ".." /\ acc # <<>> /\ acc[Len(acc)] # ".."
       THEN NormalizeOnto(SubSeq(acc, 1, Len(acc) - 1), Tail(segs))
       ELSE NormalizeOnto(Append(acc, Head(segs)), Tail(segs))
normalize(segs) ==
  IF NormalizeOnto(<<>>, segs) = <<>> THEN <<".">> ELSE NormalizeOnto(<<>>, segs)

\* .replace(/^(\.\.(\/|\\|$))+/, ''): the leading `..` segments are cut.
RECURSIVE StripDots(_)
StripDots(segs) ==
  IF segs # <<>> /\ Head(segs) = ".." THEN StripDots(Tail(segs)) ELSE segs

\* path.join(dir, ...segs) for an absolute dir: `..` goes one directory up
\* (the root is its own parent), `.` and the empty name stay in place.
RECURSIVE join(_, _)
join(dir, segs) ==
  IF segs = <<>> THEN dir
  ELSE IF Head(segs) = ".."
       THEN join(SubSeq(dir, 1, Len(dir) - 1), Tail(segs))
       ELSE IF Head(segs) \in {".", ""}
            THEN join(dir, Tail(segs))
            ELSE join(Append(dir, Head(segs)), Tail(segs))

\* path.join(dir, `${p}.mdx`): the suffix makes the last segment a file
\* name, whatever it is.
MdxIn(dir, p) ==
  IF p = <<>> THEN FileAt(dir, "")
  ELSE FileAt(join(dir, SubSeq(p, 1, Len(p) - 1)), p[Len(p)])

\* path.join(dir, p, 'index.mdx')
IndexIn(dir, p) == FileAt(join(dir, p), "index")

\* s.startsWith(prefix) on the names the model uses.
NameStartsWith(s, prefix) == s = prefix \/ (s = "pages2" /\ prefix = "pages")

\* realPath.startsWith(PAGES_DIR): a comparison of strings, so the last
\* name of PAGES_DIR need only begin the name at its place.
StartsWithPagesDir(f) ==
  LET full == f.dir \o <<f.base>>
      n == Len(PAGES_DIR)
  IN /\ Len(full) >= n
     /\ SubSeq(full, 1, n - 1) = SubSeq(PAGES_DIR, 1, n - 1)
     /\ NameStartsWith(full[n], PAGES_DIR[n])

\* The file is in the content root.
InRoot(f) == Len(f.dir) >= Len(PAGES_DIR) /\ SubSeq(f.dir, 1, Len(PAGES_DIR)) = PAGES_DIR

\* What a call did with its pageSlug: the file its name resolved to, the
\* status answered, and the files read and written.
Rejected(code, real) == [status |-> code, real |-> real, read |-> {}, written |-> {}]
Accessed(code, real, writes) ==
  [status |-> code, real |-> real, read |-> {real},
   written |-> IF writes THEN {real} ELSE {}]

\* POST /api/microtext: safePath, the .mdx file or the index.mdx of the
\* directory, 404 when neither exists, 403 when the real path does not
\* start with PAGES_DIR, else the file is read and written.
PostPath(slug) ==
  LET safePath == StripDots(normalize(slug))
      first == realpath(MdxIn(PAGES_DIR, safePath))
      realPath == IF ~Missing(first) THEN first ELSE realpath(IndexIn(PAGES_DIR, safePath))
  IN IF Missing(realPath) THEN Rejected(404, NoPath)
     ELSE IF ~StartsWithPagesDir(realPath) THEN Rejected(403, realPath)
     ELSE Accessed(200, realPath, TRUE)

\* getFilePath of the array route: the file name, or null (NoPath) when
\* the file does not exist or its real path does not start with PAGES_DIR;
\* the index.mdx of the directory is tried only when the .mdx file does not
\* exist.
getFilePath(slug) ==
  LET safePath == StripDots(normalize(slug))
      first == MdxIn(PAGES_DIR, safePath)
      second == IndexIn(PAGES_DIR, safePath)
  IN IF ~Missing(realpath(first))
     THEN IF StartsWithPagesDir(realpath(first)) THEN first ELSE NoPath
     ELSE IF ~Missing(realpath(second)) /\ StartsWithPagesDir(realpath(second))
          THEN second
          ELSE NoPath

\* The file a pageSlug names when the array route looks for it.
ArrayTarget(slug) ==
  LET safePath == StripDots(normalize(slug))
  IN IF ~Missing(realpath(MdxIn(PAGES_DIR, safePath)))
     THEN realpath(MdxIn(PAGES_DIR, safePath))
     ELSE IF ~Missing(realpath(IndexIn(PAGES_DIR, safePath)))
          THEN realpath(IndexIn(PAGES_DIR, safePath))
          ELSE NoPath

\* POST /api/microtext-array: 404 when getFilePath gives null, else the
\* file is read and written.
ArrayPath(slug) ==
  IF getFilePath(slug) = NoPath THEN Rejected(404, ArrayTarget(slug))
  ELSE Accessed(200, realpath(getFilePath(slug)), TRUE)

\* GET /api/microtext: safePath, then readFile of the .mdx file; ENOENT is
\* answered 404 and any other failure 500.
GetPath(slug) ==
  LET real == realpath(MdxIn(PAGES_DIR, StripDots(normalize(slug))))
  IN IF real = NoPath THEN Rejected(404, NoPath)
     ELSE IF real = NotDir THEN Rejected(500, NoPath)
     ELSE Accessed(200, real, FALSE)

\* POST /api/ai-edit and applyChanges: path.join(pagesDir, `${pageSlug}.mdx`),
\* readFile (404 when it fails), and with apply the same file is read again
\* and written.
AiPath(slug, apply) ==
  LET real == realpath(MdxIn(PAGES_DIR, slug))
  IN IF Missing(real) THEN Rejected(404, NoPath) ELSE Accessed(200, real, apply)

\* getMicrotext of the tool server: path.join(root, 'src', 'pages',
\* `${pageSlug}.mdx`), readFile; every failure throws 'Page not found'.
getMicrotext(slug) ==
  LET real == realpath(MdxIn(PAGES_DIR, slug))
  IN IF Missing(real) THEN Rejected(404, NoPath) ELSE Accessed(200, real, FALSE)

\* The names a pageSlug is made of, and the pageSlugs.
SlugNames == {"..", "home", "home.mdx", "sub", "out", "twin", "secret"}
Slugs == UNION {[1..n -> SlugNames] : n \in 1..MaxLen}

Routes == {"setField", "arrayOp", "get", "ai_edit", "ai_edit_apply", "list_microtext"}

\* One call of a route with a pageSlug, from the request to the answer.
PathCall(route, slug) ==
  /\ io.pc = "idle"
  /\ LET r == CASE route = "setField" -> PostPath(slug)
                [] route = "arrayOp" -> ArrayPath(slug)
                [] route = "get" -> GetPath(slug)
                [] route = "ai_edit" -> AiPath(slug, FALSE)
                [] route = "ai_edit_apply" -> AiPath(slug, TRUE)
                [] route = "list_microtext" -> getMicrotext(slug)
     IN io' = [pc |-> "done", route |-> route, slug |-> slug, real |-> r.real,
               status |-> r.status, read |-> r.read, written |-> r.written]
  /\ UNCHANGED <<file, localStorage, now, req, sync, ops, lastSave, lastWriter, hist, ai, arr,
                 fn, prev, git, pub, mcp, ui>>

\* The caller has its answer.
PathDone ==
  /\ io.pc = "done"
  /\ io' = IdleIo
  /\ UNCHANGED <<file, localStorage, now, req, sync, ops, lastSave, lastWriter, hist, ai, arr,
                 fn, prev, git, pub, mcp, ui>>

NextPath ==
  \/ \E route \in Routes, slug \in Slugs : PathCall(route, slug)
  \/ PathDone

SpecPath == Init /\ [][NextPath]_vars

\* ------------------------------------------- content trees and paths
\* The content trees with string leaves: a top-level object whose values
\* are a string, a list of strings or an object of strings.
LeafKeys == {"a", "2nd"}
TopKeys == {"hero", "list"}

\* The orders in which the keys of a set can have been inserted.
KeyOrders(keys) ==
  {ks \in UNION {[1..n -> keys] : n \in 0..Cardinality(keys)} :
     \A i, j \in DOMAIN ks : i # j => ks[i] # ks[j]}

\* The top-level keys present, in the order hero, list.
TopKeyOrders == {<<>>, <<"hero">>, <<"list">>, <<"hero", "list">>}

Leaves == {Str("A")}
Lists == {Arr([i \in 1..n |-> Str("A")]) : n \in 1..(MaxLen - 1)}
Groups == {Obj(ks, [i \in DOMAIN ks |-> Str("A")]) : ks \in KeyOrders(LeafKeys) \ {<<>>}}
Trees ==
  UNION {{Obj(ks, vs) : vs \in [DOMAIN ks -> Leaves \cup Lists \cup Groups]} :
           ks \in TopKeyOrders}

\* The paths of at most two segments over the keys and the indexes.
FnPaths ==
  {<<k>> : k \in TopKeys} \cup
  {<<k, seg>> : k \in TopKeys, seg \in LeafKeys \cup {IndexName(i) : i \in 0..(MaxLen - 1)}}

\* Every content tree is a possible document of page home.
InitFn ==
  /\ \E T \in Trees :
       file = [p \in Pages |-> IF p = "home" THEN Doc(T, "T", "body") ELSE NoFile]
  /\ localStorage = EmptyStore
  /\ now = 0
  /\ req = [r \in Slots |-> IdleReq]
  /\ sync = IdleSync
  /\ ops = 0
  /\ lastSave = EmptyStore
  /\ lastWriter = "none"
  /\ hist = NoHist
  /\ ai = IdleAi
  /\ arr = IdleArr
  /\ fn = IdleFn
  /\ prev = NoWrite
  /\ git = Repo(file)
  /\ pub = [c \in Publishers |-> IdlePub]
  /\ io = IdleIo
  /\ mcp = IdleMcp
  /\ ui = IdleUi

\* The entries of a flat map as the changes applyChanges takes.
AsChanges(flat) ==
  [i \in 1..Len(flat) |-> [id |-> flat[i].path, oldValue |-> "", newValue |-> flat[i].value]]

\* flattenMicrotext on the content tree of page home, then setNestedValue
\* into an empty tree for every entry of the flat map.
RoundTrip ==
  /\ file["home"].exists
  /\ LET flat == flattenMicrotext(file["home"].microtext, <<>>)
     IN fn' = [pc |-> "done", T |-> file["home"].microtext, flat |-> flat.flat,
               tree |-> IF flat.ok THEN applyChanges(EmptyObj, AsChanges(flat.flat))
                        ELSE Throw]
  /\ UNCHANGED <<file, localStorage, now, req, sync, ops, lastSave, lastWriter, hist, ai, arr, prev, git, pub, io, mcp, ui>>

\* One field write and the round trips, over every content tree.
NextFn ==
  \/ \E id \in FnPaths, v \in ToolValues : ToolCall("home", id, v)
  \/ PostRead("tool")
  \/ PostWrite("tool")
  \/ RoundTrip

SpecFn == InitFn /\ [][NextFn]_vars

\* ------------------------------------------------------ Path Addressor
\* The segments of the paths: field names (one of them starts with a
\* digit) and array indices.
Segments == {"a", "b", "2nd", "0", "1"}

\* The paths of one to MaxLen segments.
Paths == UNION {[1..n -> Segments] : n \in 1..MaxLen}

\* setNestedValue(tree, path, value) on an empty tree; what it leaves is
\* kept with the path and the value it was called with.
Address(path, value) ==
  /\ fn' = [pc |-> "assigned", T |-> EmptyObj,
            flat |-> <<[path |-> path, value |-> value]>>,
            tree |-> setNestedValue(EmptyObj, path, Str(value))]
  /\ UNCHANGED <<file, localStorage, now, req, sync, ops, lastSave, lastWriter, hist, ai, arr, prev, git, pub, io, mcp, ui>>

\* The Path Addressor alone, over every path.
NextAddr == \E path \in Paths, v \in ToolValues : Address(path, v)

SpecAddr == Init /\ [][NextAddr]_vars

\* ------------------------------------------------ Draft Cache and Sync
Range(seq) == {seq[i] : i \in 1..Len(seq)}

\* The editor saves a draft (MicrotextEditor.save -> saveDraft).
SaveDraft(pageSlug, id, value) ==
  /\ ops < MaxOps
  /\ ops' = ops + 1
  /\ localStorage' = saveDraft(localStorage, pageSlug, id, value, now)
  /\ now' = now + 1
  /\ lastSave' = [key \in DOMAIN lastSave \cup {getKey(pageSlug, id)} |->
                    IF key = getKey(pageSlug, id) THEN value ELSE lastSave[key]]
  /\ hist' = [hist EXCEPT !.dirty = TRUE]
  /\ sync' = [sync EXCEPT !.quiet = FALSE]
  /\ UNCHANGED <<file, req, lastWriter, ai, arr, fn, prev, git, pub, io, mcp>>

\* The ids the errors of a sync run name.
ErrorIds(errors) == {errors[i].id : i \in 1..Len(errors)}

\* syncDraftsToServer, lines 121-130: enumerate the drafts of the page;
\* with none, return at once.
SyncStart(pageSlug) ==
  /\ sync.pc \in {"idle", "done"}
  /\ ops < MaxOps
  /\ ops' = ops + 1
  /\ LET drafts == getPageDrafts(localStorage, pageSlug)
         retry == /\ sync.pc = "done"
                  /\ sync.pageSlug = pageSlug
                  /\ sync.errors # <<>>
                  /\ ~hist.dirty
     IN /\ sync' = [IdleSync EXCEPT
                      !.pc = IF DOMAIN drafts = {} THEN "done" ELSE "loop",
                      !.pageSlug = pageSlug,
                      !.drafts = drafts,
                      !.todo = DOMAIN drafts,
                      !.sent = [id \in DOMAIN drafts |-> 0],
                      !.quiet = TRUE]
        /\ hist' = [dirty |-> FALSE,
                    retry |-> retry,
                    prevFailed |-> IF retry THEN ErrorIds(sync.errors) ELSE {},
                    prevSynced |-> IF retry
                                   THEN DOMAIN sync.sent \ ErrorIds(sync.errors)
                                   ELSE {}]
  /\ UNCHANGED <<file, localStorage, now, req, lastSave, lastWriter, ai, arr, fn, prev, git, pub, io, mcp>>

\* One iteration of the for loop up to `await fetch`: the request for the
\* next id leaves; delivered, it reaches the route; not delivered, fetch
\* rejects and the catch records a network error.
SyncSend(id, delivered) ==
  /\ sync.pc = "loop"
  /\ id \in sync.todo
  /\ IF delivered
     THEN /\ req' = [req EXCEPT !["sync"] =
                 [IdleReq EXCEPT !.pc = "recv", !.pageSlug = sync.pageSlug,
                                 !.id = id, !.value = sync.drafts[id].value]]
          /\ sync' = [sync EXCEPT !.pc = "wait", !.cur = id,
                                  !.sent[id] = @ + 1]
     ELSE /\ sync' = [sync EXCEPT !.todo = @ \ {id},
                                  !.sent[id] = @ + 1,
                                  !.errors = Append(@, [id |-> id, error |-> "Network error"])]
          /\ UNCHANGED req
  /\ UNCHANGED <<file, localStorage, now, ops, lastSave, lastWriter, hist, ai, arr, fn, prev, git, pub, io, mcp, ui>>

\* The error text of a response that is not ok (the 404 text is followed
\* by the slug, which is left out here).
ErrorText(status) ==
  IF status = 404 THEN "Page not found" ELSE "Failed to update microtext"

\* A loop that clears the draft whatever the response.
SyncOutcomeClearsAlways(s, store, status) ==
  IF status = 200
  THEN [sync |-> [s EXCEPT !.synced = @ + 1], store |-> clearDraft(store, s.pageSlug, s.cur)]
  ELSE [sync |-> [s EXCEPT !.errors = Append(@, [id |-> s.cur, error |-> ErrorText(status)])],
        store |-> clearDraft(store, s.pageSlug, s.cur)]

\* A loop that gives up the remaining entries at the first error response.
SyncOutcomeStopsOnError(s, store, status) ==
  IF status = 200
  THEN [sync |-> [s EXCEPT !.synced = @ + 1], store |-> clearDraft(store, s.pageSlug, s.cur)]
  ELSE [sync |-> [s EXCEPT !.errors = Append(@, [id |-> s.cur, error |-> ErrorText(status)]),
                           !.todo = {}],
        store |-> store]

\* A loop that records an error response and keeps the draft of every
\* entry, the synced ones too.
SyncOutcomeKeepsDraft(s, store, status) ==
  IF status = 200
  THEN [sync |-> [s EXCEPT !.synced = @ + 1], store |-> store]
  ELSE [sync |-> [s EXCEPT !.errors = Append(@, [id |-> s.cur, error |-> ErrorText(status)])],
        store |-> store]

\* A loop that counts an entry as synced whatever the response.
SyncOutcomeCountsAll(s, store, status) ==
  IF status = 200
  THEN [sync |-> [s EXCEPT !.synced = @ + 1], store |-> clearDraft(store, s.pageSlug, s.cur)]
  ELSE [sync |-> [s EXCEPT !.synced = @ + 1,
                           !.errors = Append(@, [id |-> s.cur, error |-> ErrorText(status)])],
        store |-> store]

\* What the loop does with a response that arrived: res.ok clears the draft
\* and counts it, any other status records `${id}: ${data.error}`.
SyncOutcome(s, store, status) ==
  IF status = 200
  THEN [sync |-> [s EXCEPT !.synced = @ + 1], store |-> clearDraft(store, s.pageSlug, s.cur)]
  ELSE [sync |-> [s EXCEPT !.errors = Append(@, [id |-> s.cur, error |-> ErrorText(status)])],
        store |-> store]

\* The rest of the iteration: the response arrives, or it is lost and
\* fetch rejects.
SyncResponse(arrived) ==
  /\ sync.pc = "wait"
  /\ req["sync"].pc = "resp"
  /\ LET out == IF arrived
                THEN SyncOutcome(sync, localStorage, req["sync"].status)
                ELSE [sync |-> [sync EXCEPT !.errors =
                                  Append(@, [id |-> sync.cur, error |-> "Network error"])],
                      store |-> localStorage]
     IN /\ sync' = [out.sync EXCEPT !.pc = "loop", !.todo = @ \ {sync.cur}, !.cur = <<>>]
        /\ localStorage' = out.store
  /\ req' = [req EXCEPT !["sync"] = IdleReq]
  /\ UNCHANGED <<file, now, ops, lastSave, lastWriter, hist, ai, arr, fn, prev, git, pub, io, mcp, ui>>

\* The loop is over: return {success, synced, errors}.
SyncReturn ==
  /\ sync.pc = "loop"
  /\ sync.todo = {}
  /\ sync' = [sync EXCEPT !.pc = "done"]
  /\ UNCHANGED <<file, localStorage, now, req, ops, lastSave, lastWriter, hist, ai, arr, fn, prev, git, pub, io, mcp>>

SyncSuccess == sync.pc = "done" /\ sync.errors = <<>>

\* The client with its Draft Cache and sync loop, the route it posts to,
\* and one other writer racing with it.
NextSync ==
  \/ \E p \in Pages, id \in ToolIds, v \in ToolValues : ToolSend(p, id, v)
  \/ \E r \in Slots : PostRead(r)
  \/ \E r \in Slots : PostWrite(r)
  \/ ToolDone
  \/ \E in \in DraftInputs : SaveDraft("home", in.id, in.value) /\ UNCHANGED ui
  \/ SyncStart("home") /\ UNCHANGED ui
  \/ \E id \in DraftIds, d \in BOOLEAN : SyncSend(id, d)
  \/ \E a \in BOOLEAN : SyncResponse(a)
  \/ SyncReturn /\ UNCHANGED ui

SpecSync == Init /\ [][NextSync]_vars

\* ------------------------------------------------------------ SyncButton
\* updateCount: Object.keys(getPageDrafts(pageSlug)).length
updateCount(store, pageSlug) == Cardinality(DOMAIN getPageDrafts(store, pageSlug))

\* The editor saves a draft; saveDraft dispatches microtext-draft-saved and
\* the listener of the button updates the count.
EditorSave(pageSlug, id, value) ==
  /\ SaveDraft(pageSlug, id, value)
  /\ ui' = [ui EXCEPT !.draftCount = updateCount(localStorage', pageSlug)]

\* handleSync up to `await syncDraftsToServer`: nothing happens with a
\* count of 0; the button is disabled while syncing.
HandleSync(pageSlug) ==
  /\ ui.draftCount # 0
  /\ ~ui.syncing
  /\ SyncStart(pageSlug)
  /\ ui' = [ui EXCEPT !.syncing = TRUE]

\* The rest of handleSync: the result arrives; on success the count is
\* updated, on errors only the message is set; finally syncing is false.
HandleSyncDone ==
  /\ ui.syncing
  /\ SyncReturn
  /\ ui' = [draftCount |-> IF sync.errors = <<>>
                           THEN updateCount(localStorage, sync.pageSlug)
                           ELSE ui.draftCount,
            syncing |-> FALSE]

\* The editor and the button of page home, with the route they post to.
NextButton ==
  \/ \E in \in DraftInputs : EditorSave("home", in.id, in.value)
  \/ HandleSync("home")
  \/ \E id \in DraftIds, d \in BOOLEAN : SyncSend(id, d)
  \/ PostRead("sync")
  \/ PostWrite("sync")
  \/ \E a \in BOOLEAN : SyncResponse(a)
  \/ HandleSyncDone

SpecButton == Init /\ [][NextButton]_vars

\* ----------------------------------------------- Draft Cache, by page
\* Two pages whose drafts share the cache; the slug of the second holds a
\* ':'.
CachePages == {"home", "home:x"}
CacheIds == {HeroHeadline, <<"cta">>}

\* getPageDrafts(pageSlug), with what it returned.
Enumerate(pageSlug) ==
  /\ fn' = [pc |-> "drafts", T |-> Undef, tree |-> Undef,
            flat |-> <<[page |-> pageSlug,
                        drafts |-> getPageDrafts(localStorage, pageSlug)]>>]
  /\ UNCHANGED <<file, localStorage, now, req, sync, ops, lastSave, lastWriter, hist, ai, arr, prev, git, pub, io, mcp, ui>>

\* clearDraft(pageSlug, id)
ClearOne(pageSlug, id) ==
  /\ getKey(pageSlug, id) \in DOMAIN localStorage
  /\ localStorage' = clearDraft(localStorage, pageSlug, id)
  /\ fn' = [pc |-> "cleared one", T |-> Undef, tree |-> Undef,
            flat |-> <<[page |-> pageSlug, drafts |-> EmptyStore]>>]
  /\ UNCHANGED <<file, now, req, sync, ops, lastSave, lastWriter, hist, ai, arr, prev, git, pub, io, mcp, ui>>

\* clearPageDrafts(pageSlug)
ClearPage(pageSlug) ==
  /\ localStorage' = clearPageDrafts(localStorage, pageSlug)
  /\ fn' = [pc |-> "cleared", T |-> Undef, tree |-> Undef,
            flat |-> <<[page |-> pageSlug, drafts |-> EmptyStore]>>]
  /\ UNCHANGED <<file, now, req, sync, ops, lastSave, lastWriter, hist, ai, arr, prev, git, pub, io, mcp, ui>>

\* The Draft Cache alone: saves, enumerations and clears of two pages.
NextCache ==
  \/ \E p \in CachePages, id \in CacheIds, v \in DraftValues :
       SaveDraft(p, id, v) /\ UNCHANGED ui
  \/ \E p \in CachePages : Enumerate(p)
  \/ \E p \in CachePages, id \in CacheIds : ClearOne(p, id)
  \/ \E p \in CachePages : ClearPage(p)

SpecCache == Init /\ [][NextCache]_vars

\* ------------------------------------------- sync, the order of keys
\* The values of the drafts of a sync.
OrderValues == {"C", "D"}

\* Two pending drafts of page home on distinct paths, in the order in which
\* Object.keys(drafts) hands them to the loop.
DraftPairs ==
  {<<[path |-> p1, value |-> v1], [path |-> p2, value |-> v2]>> :
     p1 \in FnPaths, p2 \in FnPaths, v1 \in OrderValues, v2 \in OrderValues} \
  {ds \in [1..2 -> [path : FnPaths, value : OrderValues]] : ds[1].path = ds[2].path}

RECURSIVE SyncWrites(_, _)
\* The loop of syncDraftsToServer with no other writer: one awaited POST
\* /api/microtext per draft, each updating the content tree the one before
\* wrote.  The result is the set of content trees the file can hold after
\* the last POST, or Throw when one of them answered 500.
SyncWrites(tree, drafts) ==
  IF drafts = <<>> THEN {tree}
  ELSE UNION {IF out = Throw THEN {Throw} ELSE SyncWrites(out, Tail(drafts)) :
                out \in Stringify(MicrotextUpdate(tree, Head(drafts).path,
                                                  Head(drafts).value))}

\* A sync of two drafts of page home, processed in the order given.
SyncInOrder(drafts) ==
  /\ fn.pc = "idle"
  /\ file["home"].exists
  /\ \E out \in SyncWrites(file["home"].microtext, drafts) :
       fn' = [pc |-> "synced", T |-> file["home"].microtext, flat |-> drafts,
              tree |-> out]
  /\ UNCHANGED <<file, localStorage, now, req, sync, ops, lastSave, lastWriter, hist, ai, arr, prev, git, pub, io, mcp, ui>>

NextOrder ==
  \E drafts \in DraftPairs : SyncInOrder(drafts)

SpecOrder == InitFn /\ [][NextOrder]_vars

\* ------------------------------------------------------- tool server
\* The tools answered by the server itself, and a name it does not know.
LocalTools == {"list_pages", "list_microtext", "publish_all"}

\* list_pages, list_microtext and the default case of the switch: the
\* result of the call, or the result of the catch when the case throws
\* (getMicrotext throws for every failure of reading and flattening).
McpLocal(name, pageSlug) ==
  /\ mcp.pc = "idle"
  /\ ops < MaxCalls
  /\ ops' = ops + 1
  /\ LET data == file[pageSlug]
         flat == flattenMicrotext(data.microtext, <<>>)
         threw == CASE name = "list_pages" -> FALSE
                    [] name = "list_microtext" ->
                         ~data.exists \/ (~Falsy(data.microtext) /\ ~flat.ok)
                    [] OTHER -> TRUE
     IN mcp' = [pc |-> "done", name |-> name, failed |-> threw,
                result |-> IF threw THEN ToolResult(TRUE, [error |-> "message"])
                           ELSE ToolResult(FALSE, [pageSlug |-> pageSlug])]
  /\ UNCHANGED <<file, localStorage, now, req, sync, lastSave, lastWriter, hist, ai, arr, fn,
                 prev, git, pub, io, ui>>

\* The JSON body of the answers of POST /api/microtext.
PostBody(status) ==
  IF status = 200 THEN [success |-> TRUE] ELSE [error |-> ErrorText(status)]

\* edit_microtext after its fetch: the body of the answer is parsed and
\* returned as the result, whatever the status; a fetch or a parse that
\* throws ends in the catch.
McpEditAnswer ==
  /\ mcp.pc = "idle"
  /\ req["tool"].pc = "resp"
  /\ \E threw \in BOOLEAN :
       mcp' = [pc |-> "done", name |-> "edit_microtext",
               failed |-> threw \/ req["tool"].status # 200,
               result |-> IF threw THEN ToolResult(TRUE, [error |-> "message"])
                          ELSE ToolResult(FALSE, PostBody(req["tool"].status))]
  /\ req' = [req EXCEPT !["tool"] = IdleReq]
  /\ UNCHANGED <<file, localStorage, now, sync, ops, lastSave, lastWriter, hist, ai, arr, fn,
                 prev, git, pub, io, ui>>

\* The JSON body of the answers of POST /api/ai-edit.
AiBody(status, applied) ==
  IF status = 200 THEN [success |-> TRUE, applied |-> applied]
  ELSE [success |-> FALSE, error |-> ErrorText(status)]

\* ai_edit after its fetch: as edit_microtext.
McpAiAnswer ==
  /\ mcp.pc = "idle"
  /\ ai.pc = "resp"
  /\ \E threw \in BOOLEAN :
       mcp' = [pc |-> "done", name |-> "ai_edit",
               failed |-> threw \/ ai.status # 200,
               result |-> IF threw THEN ToolResult(TRUE, [error |-> "message"])
                          ELSE ToolResult(FALSE, AiBody(ai.status, ai.applied))]
  /\ ai' = IdleAi
  /\ UNCHANGED <<file, localStorage, now, req, sync, ops, lastSave, lastWriter, hist, arr, fn,
                 prev, git, pub, io, ui>>

\* The agent has the result.
McpDone ==
  /\ mcp.pc = "done"
  /\ mcp' = IdleMcp
  /\ UNCHANGED <<file, localStorage, now, req, sync, ops, lastSave, lastWriter, hist, ai, arr,
                 fn, prev, git, pub, io, ui>>

\* The calls of an agent through the tool server.
NextTool ==
  \/ \E name \in LocalTools, p \in Pages : McpLocal(name, p)
  \/ \E p \in Pages, id \in StoreIds, v \in ToolValues : ToolCall(p, id, v)
  \/ PostRead("tool")
  \/ PostWrite("tool")
  \/ McpEditAnswer
  \/ \E p \in Pages, given \in BOOLEAN, apply \in BOOLEAN : AiSend(p, ApplyOf(given, apply))
  \/ AiRead
  \/ AiInterpret
  \/ AiApplyRead
  \/ AiApplyWrite
  \/ McpAiAnswer
  \/ McpDone

SpecTool == Init /\ [][NextTool]_vars

\* ------------------------------------------------------------------ claims
HomeFlat == flattenMicrotext(file["home"].microtext, <<>>)

\* C1: applying the changes of an instruction is a compare-and-set per
\* entry: a change whose oldValue is no longer the live value when the
\* changes are applied leaves the live value as it is. Stated for the file
\* as the instruction route wrote it (it is the last writer): every change
\* whose oldValue differs from the value applyChanges read is still at the
\* value applyChanges read.
C1_ApplyIsCompareAndSet ==
  (ai.pc = "resp" /\ ai.applied /\ lastWriter = "ai") =>
     \A i \in 1..Len(ai.changes) :
        getNestedValue(ai.data.microtext, ai.changes[i].id) # Str(ai.changes[i].oldValue)
          => getNestedValue(file[ai.pageSlug].microtext, ai.changes[i].id)
               = getNestedValue(ai.data.microtext, ai.changes[i].id)

RECURSIVE Without(_, _)
\* The entries of a flat map other than the one at path, in order.
Without(flat, path) ==
  IF flat = <<>> THEN <<>>
  ELSE IF flat[1].path = path THEN Without(Tail(flat), path)
  ELSE <<flat[1]>> \o Without(Tail(flat), path)

RECURSIVE Among(_, _)
\* The entries of a flat map whose path is the path of an entry of others.
Among(flat, others) ==
  IF flat = <<>> THEN <<>>
  ELSE IF FlatPos(others, flat[1].path) > 0 THEN <<flat[1]>> \o Among(Tail(flat), others)
  ELSE Among(Tail(flat), others)

\* C3: a field write changes only the leaf its path addresses: every other
\* leaf that flatten reported before the write is reported after it, at the
\* same path with the same value, and these leaves keep their relative
\* order.
C3_SetFieldChangesOnlyAddressedLeaf ==
  [][(req["tool"].pc = "read" /\ req'["tool"].pc = "resp") =>
       LET before == Without(flattenMicrotext(file["home"].microtext, <<>>).flat,
                             req["tool"].id)
           after == flattenMicrotext(file'["home"].microtext, <<>>).flat
       IN Among(after, before) = before]_vars

\* No container of the tree is empty.
RECURSIVE NoEmptyContainer(_)
NoEmptyContainer(node) ==
  /\ node.k = "arr" => node.items # <<>>
  /\ node.k = "obj" => node.keys # <<>>
  /\ \A i \in 1..Len(node.items) : NoEmptyContainer(node.items[i])
  /\ \A i \in 1..Len(node.vals) : NoEmptyContainer(node.vals[i])

\* C10: for a content tree T with string leaves (and no empty container,
\* which has no entry in the flat map), setNestedValue into an empty tree
\* for every entry of flatten(T) yields T: same structure, same container
\* kinds, same order.
C10_RoundTripReproducesTree ==
  (fn.pc = "done" /\ fn.T \in Trees /\ NoEmptyContainer(fn.T)) => fn.tree = fn.T

\* C11: assigning v at a path of field names and indices in an empty tree
\* and then resolving the same path returns v.
C11_AssignThenResolve ==
  fn.pc = "assigned" =>
    getNestedValue(fn.tree, fn.flat[1].path) = Str(fn.flat[1].value)

\* The field write in flight is written with answer 200, and it repeats
\* the call of the last write, a field write too.
SetFieldAgain ==
  /\ req["tool"].pc = "read"
  /\ req'["tool"].pc = "resp"
  /\ req'["tool"].status = 200
  /\ prev.by = "tool"
  /\ prev.call = <<req["tool"].pageSlug, req["tool"].id, req["tool"].value>>

\* C12: a field write called twice in a row with the same value and no
\* other write in between leaves, after the second call, the content tree
\* the first call left, and the second call returns previousValue = value.
C12_SetFieldIdempotent ==
  [][SetFieldAgain =>
       /\ file'[req["tool"].pageSlug].microtext = prev.after
       /\ req'["tool"].previousValue = Str(req["tool"].value)]_vars

\* The field write that was answered leaves no gap in an array (a write
\* past the end of an array is left to the claims about gaps).
SetFieldLeavesNoGap ==
  LET after == MicrotextUpdate(req["tool"].data.microtext, req["tool"].id, req["tool"].value)
  IN after = Throw \/ ~HasHole(after)

\* C13: a field write on an existing page for a path that is not set
\* succeeds, and returns as previousValue what resolving the path gave
\* before the write: undefined.
C13_SetFieldCreatesUnsetPath ==
  (/\ req["tool"].pc = "resp"
   /\ req["tool"].data.exists
   /\ MicrotextOld(req["tool"].data.microtext, req["tool"].id) = Undef
   /\ SetFieldLeavesNoGap)
  => /\ req["tool"].status = 200
     /\ req["tool"].previousValue = Undef

\* The array the array call in flight read at its path, and the array the
\* file holds there now.
ArrBefore == ArrayAt(arr.data.microtext, arr.arrayPath)
ArrNow == getNestedValue(file[arr.pageSlug].microtext, arr.arrayPath)

\* The array call was answered 200 for the action, and the file is as it
\* wrote it.
ArrAnswered(action) ==
  /\ arr.pc = "resp"
  /\ arr.status = 200
  /\ arr.action = action
  /\ lastWriter = "arr"

\* What add appends: the template, or the default placeholder when no
\* template is given.
Appended == IF arr.template = Undef
            THEN Obj(<<"title", "desc">>, <<Str("New Item"), Str("Description")>>)
            ELSE arr.template

\* C14: add on an array of length n reports index n and newLength n + 1;
\* the item at index n is the template (the default placeholder when none
\* is given) and the items at 0..n-1 are unchanged.
C14_AddAppends ==
  ArrAnswered("add") =>
    /\ arr.index = Len(ArrBefore.items)
    /\ arr.newLength = Len(ArrBefore.items) + 1
    /\ ArrNow.k = "arr"
    /\ Len(ArrNow.items) = Len(ArrBefore.items) + 1
    /\ getNestedValue(file[arr.pageSlug].microtext,
                      arr.arrayPath \o <<IndexName(arr.index)>>) = Appended
    /\ arr.item = Appended
    /\ SubSeq(ArrNow.items, 1, Len(ArrBefore.items)) = ArrBefore.items

\* The default placeholder was appended to a list of two items.
C14_Witness ==
  /\ ArrAnswered("add")
  /\ arr.template = Undef
  /\ Len(ArrBefore.items) = 2
  /\ Len(ArrNow.items) = 3
  /\ ArrNow.items[3] = Obj(<<"title", "desc">>, <<Str("New Item"), Str("Description")>>)

\* C15: remove at an in-range index i of an array of length n returns the
\* item that was at i and newLength n - 1; the items that were below i keep
\* their index and the items that were above i are one index lower.
C15_RemoveShifts ==
  ArrAnswered("remove") =>
    /\ arr.index >= 0 /\ arr.index < Len(ArrBefore.items)
    /\ arr.item = ArrBefore.items[arr.index + 1]
    /\ arr.newLength = Len(ArrBefore.items) - 1
    /\ ArrNow.k = "arr"
    /\ Len(ArrNow.items) = Len(ArrBefore.items) - 1
    /\ \A j \in 1..Len(ArrBefore.items) :
         /\ j < arr.index + 1 => ArrNow.items[j] = ArrBefore.items[j]
         /\ j > arr.index + 1 => ArrNow.items[j - 1] = ArrBefore.items[j]

\* The middle item of a list of three was removed: one item stays where
\* it was and one moves down.
C15_Witness ==
  /\ ArrAnswered("remove")
  /\ arr.index = 1
  /\ Len(ArrBefore.items) = 3
  /\ ArrNow = Arr(<<ArrBefore.items[1], ArrBefore.items[3]>>)

\* The step of the array route that completes a remove.
RemoveCompletes ==
  /\ arr.pc = "read"
  /\ arr.action = "remove"
  /\ arr'.pc = "resp"

\* C16: remove with an index outside 0 <= index < length fails (400,
\* index out of bounds) and leaves the document unchanged: nothing is
\* written.
C16_RemoveOutOfRangeFails ==
  [][(RemoveCompletes /\ (arr.index < 0 \/ arr.index >= Len(ArrBefore.items))) =>
       /\ arr'.status = 400
       /\ file' = file]_vars

\* A remove at index 3 of a list of three items was refused, and the list
\* has its three items.
C16_Witness ==
  /\ arr.pc = "resp"
  /\ arr.action = "remove"
  /\ arr.status = 400
  /\ arr.index = 3
  /\ ArrNow = FeatureList(3)
  /\ prev = NoWrite

\* The array call in flight repeats the call of the last write, which was
\* an array operation too.
RepeatsLastWrite ==
  /\ prev.by = "arr"
  /\ prev.call = <<arr.pageSlug, arr.arrayPath, arr.action, arr.index, arr.template>>

\* C17: the same remove issued again after it succeeded fails with index
\* out of bounds, or removes the item that shifted into the index; it never
\* succeeds and leaves the array as the first remove left it.
C17_RemoveNotIdempotent ==
  [][(RemoveCompletes /\ RepeatsLastWrite) =>
       \/ arr'.status = 400 /\ file' = file
       \/ /\ arr'.status = 200
          /\ arr'.item = getNestedValue(prev.after, arr.arrayPath \o <<IndexName(arr.index)>>)
          /\ getNestedValue(file'[arr.pageSlug].microtext, arr.arrayPath)
               # getNestedValue(prev.after, arr.arrayPath)]_vars

\* The remove at index 0 was written twice in a row: the second took the
\* item the first had shifted to index 0.
C17_Witness ==
  /\ ArrAnswered("remove")
  /\ prev.again
  /\ arr.index = 0
  /\ arr.item = FeatureList(2).items[2]
  /\ ArrNow = Arr(<<>>)

\* C18: an add issued again after its write succeeded leaves the array in
\* the state a single add produces: the array the first add wrote.
C18_AddRetryable ==
  [][(arr.pc = "read" /\ arr.action = "add" /\ arr'.pc = "resp" /\ RepeatsLastWrite) =>
       getNestedValue(file'[arr.pageSlug].microtext, arr.arrayPath)
         = getNestedValue(prev.after, arr.arrayPath)]_vars

\* Publish call c is answered by this step with a commit made.
PubCommitted(c) == pub[c].pc = "added" /\ pub'[c].pc = "resp" /\ pub'[c].code = 200

\* The last commit of a log.
LastCommit(log) == log[Len(log)]

\* C19: when no content document differs from the last committed state,
\* publish answers success with filesChanged = 0 and neither stages nor
\* commits: index, committed tree and commit log stay as they were.
C19_PublishNoOp ==
  [][\A c \in Publishers :
       (pub[c].pc = "recv" /\ Pending = {} /\ pub'[c] # pub[c]) =>
         /\ pub'[c].pc = "resp"
         /\ pub'[c].code = 200
         /\ "success" \in DOMAIN pub'[c].body /\ pub'[c].body.success
         /\ "filesChanged" \in DOMAIN pub'[c].body /\ pub'[c].body.filesChanged = 0
         /\ git' = git]_vars

\* The part of C19 about the repository: an empty status listing is
\* answered 200 with success and changes neither index, committed tree nor
\* log.
PublishNoOpLeavesRepo ==
  [][\A c \in Publishers :
       (pub[c].pc = "recv" /\ GitStatus = {} /\ pub'[c] # pub[c]) =>
         /\ pub'[c].pc = "resp" /\ pub'[c].code = 200 /\ pub'[c].body.success
         /\ git' = git]_vars

\* C20 as stated: a successful publish makes exactly one commit, the commit
\* contains every content file that differed from the last committed state
\* when publish was invoked, and every file is committed whole.
C20_CommitHoldsInvokedFiles ==
  [][\A c \in Publishers :
       PubCommitted(c) =>
         /\ Len(git'.log) = Len(git.log) + 1
         /\ pub[c].invoked \subseteq LastCommit(git'.log).files
         /\ git'.head = git.index]_vars

\* C20 (amended): a successful publish makes exactly one commit, the commit
\* contains every content file that differed from the last committed state
\* when the changes were last staged before it, and every file is committed
\* whole, in the version staged.
C20_CommitHoldsStagedFiles ==
  [][\A c \in Publishers :
       PubCommitted(c) =>
         /\ Len(git'.log) = Len(git.log) + 1
         /\ git.added \subseteq LastCommit(git'.log).files
         /\ git'.head = git.index]_vars

\* Both pages were edited and one publish committed the two of them.
C20_Witness ==
  /\ pub["p1"].pc = "resp"
  /\ pub["p1"].code = 200
  /\ Len(git.log) = 1
  /\ git.log[1].files = PubPages
  /\ git.head = file

\* C31: a field write that reaches a missing container creates it as an
\* array when the next segment of the path is a number and as an object
\* otherwise, and a container that is already there has the same kind
\* (array or object) after the write as before.
C31_ContainerKindFollowsNextSegment ==
  (req["tool"].pc = "read" /\ Len(req["tool"].id) = 2) =>
    LET before == EnsureMicrotext(req["tool"].data.microtext)
        after == MicrotextUpdate(before, req["tool"].id, req["tool"].value)
        old == GetProp(before, req["tool"].id[1])
        new == GetProp(after, req["tool"].id[1])
    IN after # Throw =>
         /\ old = Undef =>
              new.k = IF IsIndexName(req["tool"].id[2]) THEN "arr" ELSE "obj"
         /\ old.k \in {"arr", "obj"} => new.k = old.k

C34_AddKeepsLeaves ==
  [][(arr.pc = "read" /\ arr'.pc = "resp" /\ arr'.status = 200 /\ arr.action = "add") =>
       LET before == flattenMicrotext(arr.data.microtext, <<>>)
           after == flattenMicrotext(file'[arr.pageSlug].microtext, <<>>)
       IN before.ok =>
            \A i \in 1..Len(before.flat) :
              \E j \in 1..Len(after.flat) : after.flat[j] = before.flat[i]]_vars

\* C33: no draft value is lost by sync: whenever an entry leaves the Draft
\* Cache, it is the entry of the key whose POST was just answered 200, and
\* the value removed is the value that POST carried; a value saved while
\* the sync was in flight stays pending.
C33_SyncRemovesOnlyWhatItWrote ==
  [][\A key \in DOMAIN localStorage \ DOMAIN localStorage' :
       /\ req["sync"].pc = "resp"
       /\ req["sync"].status = 200
       /\ key = getKey(sync.pageSlug, sync.cur)
       /\ localStorage[key].value = req["sync"].value]_vars

\* The keys of the drafts saved under a page and not cleared since.
SavedUnder(store, pageSlug) == {key \in DOMAIN store : key[1] = pageSlug}

\* C35: the Draft Cache keeps pages apart: getPageDrafts(page) returns
\* exactly the drafts saved under that page and not yet cleared, each under
\* its id, and clearPageDrafts(page) removes those entries and no entry of
\* another page.
C35_DraftsIsolatedByPage ==
  [][/\ (fn'.pc = "drafts" /\ fn' # fn) =>
          /\ DOMAIN fn'.flat[1].drafts =
               {key[2] : key \in SavedUnder(localStorage, fn'.flat[1].page)}
          /\ \A key \in SavedUnder(localStorage, fn'.flat[1].page) :
               fn'.flat[1].drafts[key[2]] = localStorage[key]
     /\ (fn'.pc = "cleared" /\ fn' # fn) =>
          DOMAIN localStorage' =
            DOMAIN localStorage \ SavedUnder(localStorage, fn'.flat[1].page)]_vars

\* C36: the result of a sync adds up: when it returns, synced plus the
\* number of errors is the number of drafts it enumerated; every step of a
\* run raises synced by the number of entries it removed from the Draft
\* Cache; and a sync that finds no drafts returns at once with synced 0 and
\* no errors, without sending a request.  (success is errors.length === 0
\* in the returned record, SyncSuccess.)
C36_SyncResultAddsUp ==
  [][/\ sync'.pc = "done" =>
          sync'.synced + Len(sync'.errors) = Cardinality(DOMAIN sync'.drafts)
     /\ sync.pc \in {"loop", "wait"} =>
          sync'.synced - sync.synced =
            Cardinality(DOMAIN localStorage \ DOMAIN localStorage')
     /\ (sync'.pc # "idle" /\ DOMAIN sync'.drafts = {}) =>
          /\ sync'.pc = "done"
          /\ sync'.synced = 0
          /\ sync'.errors = <<>>
          /\ req'["sync"] = IdleReq]_vars

\* A sync of two drafts returned with one synced and one error.
C36_Witness ==
  /\ sync.pc = "done"
  /\ Cardinality(DOMAIN sync.drafts) = 2
  /\ sync.synced = 1
  /\ Len(sync.errors) = 1

\* C37: when handleSync finishes, after a full success or a partial
\* failure, the draft count the button shows is the number of drafts
\* pending in the Draft Cache for the page.
C37_CountShownIsPending ==
  [][(ui.syncing /\ ~ui'.syncing) =>
       ui'.draftCount = updateCount(localStorage', sync'.pageSlug)]_vars

RECURSIVE SameTree(_, _)
\* Two content trees hold the same document: the same kind of node, the
\* same string, the same items in the same positions, and the same keys
\* with the same values whatever the order of the keys.
SameTree(a, b) ==
  /\ a.k = b.k
  /\ a.s = b.s
  /\ Len(a.items) = Len(b.items)
  /\ \A i \in 1..Len(a.items) : SameTree(a.items[i], b.items[i])
  /\ Range(a.keys) = Range(b.keys)
  /\ \A key \in Range(a.keys) :
       SameTree(a.vals[IndexOf(a.keys, key)], b.vals[IndexOf(b.keys, key)])

\* C30: with no other writer, a sync of drafts on distinct paths in which
\* every POST succeeded leaves the same document whichever draft was sent
\* first: the tree after the sync in one order is the tree after every
\* fully successful sync of the same drafts in the other order.
C30_SyncOrderIrrelevant ==
  (fn.pc = "synced" /\ fn.tree # Throw) =>
    \A other \in SyncWrites(fn.T, <<fn.flat[2], fn.flat[1]>>) \ {Throw} :
      SameTree(other, fn.tree)

\* C21: the filesChanged count a successful publish returns is the number
\* of content files in the commit it made, whatever lands between its
\* status check and its staging.
C21_CountIsCommitSize ==
  [][\A c \in Publishers :
       PubCommitted(c) =>
         pub'[c].body.filesChanged = Cardinality(LastCommit(git'.log).files)]_vars

\* C22: when the commit fails, publish answers with a failure that reports
\* no file as published (an error, no success flag, no count), and the
\* committed state stays as it was: the committed tree and the commit log
\* change only in a step that answers a publish with success.
C22_FailedCommitLeavesHead ==
  [][/\ \A c \in Publishers :
          (pub[c].pc = "added" /\ pub'[c].pc = "resp" /\ pub'[c].code # 200) =>
            /\ pub'[c].code = 500
            /\ DOMAIN pub'[c].body = {"error"}
            /\ git'.head = git.head
            /\ git'.log = git.log
     /\ (git'.head # git.head \/ git'.log # git.log) =>
          \E c \in Publishers : PubCommitted(c)]_vars

\* A publish whose commit failed: answered 500, the edits staged, nothing
\* committed.
C22_Witness ==
  /\ pub["p1"].pc = "resp"
  /\ pub["p1"].code = 500
  /\ git.index # git.head
  /\ git.head = Committed
  /\ git.log = <<>>

\* The content files with a change not yet committed: the working copy or
\* the staged version differs from the last commit.
Outstanding ==
  {p \in DOMAIN file : file[p] # git.head[p] \/ git.index[p] # git.head[p]}

C24_StorePathSafety ==
  (io.pc = "done" /\ io.route \in {"setField", "arrayOp"}) =>
    /\ (io.real # NoPath /\ ~InRoot(io.real)) =>
         io.status = 403 /\ io.read = {} /\ io.written = {}
    /\ \A f \in io.read \cup io.written : InRoot(f)

\* C25: list_microtext and ai_edit never read or write a file outside the
\* content root: a pageSlug that resolves outside it is rejected with
\* nothing read or written.
C25_ToolPathSafety ==
  (io.pc = "done" /\ io.route \in {"list_microtext", "ai_edit", "ai_edit_apply"}) =>
    /\ (io.real # NoPath /\ ~InRoot(io.real)) => io.read = {} /\ io.written = {}
    /\ \A f \in io.read \cup io.written : InRoot(f)

\* The page of the call has no backing file: neither its .mdx file nor the
\* index.mdx of its directory exists.
BackingFileAbsent ==
  LET safePath == StripDots(normalize(io.slug))
  IN /\ Missing(realpath(MdxIn(PAGES_DIR, safePath)))
     /\ Missing(realpath(IndexIn(PAGES_DIR, safePath)))

\* C26: get and setField on a page whose backing file is absent fail with
\* NotFound (404) and neither read, write nor create a file.
C26_AbsentPageNotFound ==
  (io.pc = "done" /\ io.route \in {"get", "setField"} /\ BackingFileAbsent) =>
    io.status = 404 /\ io.read = {} /\ io.written = {}

\* C27: when the changes of an instruction are applied and one of them
\* cannot be applied, every change of the batch that can be applied to the
\* document read is written all the same.
C27_BatchAppliesIndependently ==
  [][(ai.pc = "write" /\ ai'.pc = "resp") =>
       \A i \in 1..Len(ai.changes) :
          setNestedValue(ai.data.microtext, ai.changes[i].id, Str(ai.changes[i].newValue))
              # Throw
            => getNestedValue(file'[ai.pageSlug].microtext, ai.changes[i].id)
                 = Str(ai.changes[i].newValue)]_vars

\* C28: an ai_edit call with apply false or left out never writes the
\* document and is answered with the proposed changes and applied = false;
\* the instruction route writes only for a call with apply = true.
C28_PreviewNeverWrites ==
  [][/\ (ai.pc # "idle" /\ ai' # ai /\ ~ai.apply) =>
          /\ file' = file
          /\ (ai.pc = "interp" /\ ai'.pc = "resp" /\ ai'.status = 200) =>
               ai'.changes \in ProposedChanges(ai.flat) /\ ~ai'.applied
     /\ (file' # file /\ lastWriter' = "ai" /\ ai' # ai) => ai.apply]_vars

\* A preview was answered with a proposed change and the page is as it was.
C28_Witness ==
  /\ ai.pc = "resp"
  /\ ai.status = 200
  /\ ~ai.apply
  /\ ~ai.applied
  /\ Len(ai.changes) = 2
  /\ file["home"] = Doc(HomeTree, "T", "body")

\* C29: every tool call that fails (a tool name the server does not know,
\* a missing page, an error answer of the Document Store to a field write)
\* returns a result marked as a failure.
C29_FailedToolCallIsMarked ==
  (mcp.pc = "done" /\ mcp.failed) => mcp.result.isError

SyncSettles(id) ==
  /\ sync.pc \in {"loop", "wait"}
  /\ sync'.pc = "loop"
  /\ id \in sync.todo
  /\ id \notin sync'.todo

\* C4: a draft whose write is answered ok is removed from the Draft Cache;
\* a draft whose write fails (error response or network error) stays in the
\* cache with its value unchanged and is recorded in errors.
C4_SyncPerKeyOutcome ==
  [][\A id \in DraftIds :
       SyncSettles(id) =>
         LET key == getKey(sync.pageSlug, id)
             cleared == /\ key \notin DOMAIN localStorage'
                        /\ sync'.synced = sync.synced + 1
                        /\ sync'.errors = sync.errors
             kept == /\ key \in DOMAIN localStorage'
                     /\ localStorage' = localStorage
                     /\ sync'.synced = sync.synced
                     /\ Len(sync'.errors) = Len(sync.errors) + 1
                     /\ sync'.errors[Len(sync'.errors)].id = id
         IN /\ cleared \/ kept
            /\ cleared => sync.pc = "wait" /\ req["sync"].status = 200
            /\ (sync.pc = "loop" \/ req["sync"].status # 200) => kept]_vars

C4_Witness ==
  /\ sync.pc = "done"
  /\ sync.synced = 1
  /\ Len(sync.errors) = 1
  /\ getKey("home", sync.errors[1].id) \in DOMAIN localStorage
  /\ sync.errors[1].error = "Failed to update microtext"

\* The running sync call can take a step: the guard of SyncSend or
\* SyncReturn holds in the loop, and while it awaits fetch its request is
\* with the route (PostRead, PostWrite) or answered (SyncResponse).
SyncCanStep ==
  \/ sync.pc = "loop" /\ (sync.todo = {} \/ \E id \in DraftIds : id \in sync.todo)
  \/ sync.pc = "wait" /\ req["sync"].pc \in {"recv", "read", "resp"}

\* How far the running sync call is from returning: four steps for every
\* id still to do, less the steps taken for the id in flight.
SyncDistance ==
  IF sync.pc = "done" THEN 0
  ELSE 1 + 4 * Cardinality(sync.todo)
         - (CASE req["sync"].pc = "recv" -> 1
              [] req["sync"].pc = "read" -> 2
              [] req["sync"].pc = "resp" -> 3
              [] OTHER -> 0)

\* C5: sync terminates (while it runs a next step is always possible, and
\* every step brings it strictly closer to its return), and it attempts a
\* setField exactly once for every entry it enumerated, whatever the
\* outcomes of the other attempts.
C5_SyncTerminatesAttemptsAll ==
  /\ [](sync.pc \in {"loop", "wait"} => SyncCanStep)
  /\ [][(/\ sync.pc \in {"loop", "wait"}
          /\ \/ [sync' EXCEPT !.quiet = TRUE] # [sync EXCEPT !.quiet = TRUE]
             \/ req'["sync"] # req["sync"])
          => (SyncDistance' < SyncDistance /\ SyncDistance' >= 0)]_vars
  /\ [](\A id \in DOMAIN sync.sent : sync.sent[id] <= 1)
  /\ [](sync.pc = "done" => \A id \in DOMAIN sync.drafts : sync.sent[id] = 1)

C5_Witness ==
  /\ sync.pc = "done"
  /\ Cardinality(DOMAIN sync.drafts) = 2
  /\ Len(sync.errors) = 2
  /\ \A id \in DOMAIN sync.drafts : sync.sent[id] = 1

\* C6: a sync invoked again after a partial failure, with no draft saved in
\* between, sends only entries that failed before and none that was synced.
C6_RetryOnlyPending ==
  hist.retry =>
    /\ DOMAIN sync.drafts \subseteq hist.prevFailed
    /\ \A id \in DOMAIN sync.sent :
         sync.sent[id] > 0 => id \in hist.prevFailed /\ id \notin hist.prevSynced

C6_Witness ==
  /\ hist.retry
  /\ hist.prevSynced # {}
  /\ \E id \in DOMAIN sync.sent : sync.sent[id] > 0

\* C7: after sync returns success with no other writer active, the store
\* holds v at k for every pending (k, v), and the page has no draft left.
C7_SyncedValuesStored ==
  (SyncSuccess /\ sync.quiet /\ req["tool"].pc = "idle") =>
    /\ \A id \in DOMAIN sync.drafts :
         /\ HomeFlat.ok
         /\ FlatPos(HomeFlat.flat, id) > 0
         /\ HomeFlat.flat[FlatPos(HomeFlat.flat, id)].value = sync.drafts[id].value
    /\ DOMAIN getPageDrafts(localStorage, sync.pageSlug) = {}

C9_LastWriterWins ==
  \A r \in Slots :
    /\ (req[r].pc = "resp" /\ req[r].data.exists) =>
         (req[r].status = 200) =
           (Throw \notin Stringify(MicrotextUpdate(req[r].data.microtext,
                                                   req[r].id, req[r].value)))
    /\ (req[r].pc = "resp" /\ req[r].status = 200 /\ lastWriter = r) =>
         /\ file[req[r].pageSlug].microtext =
              Dumped(MicrotextUpdate(req[r].data.microtext, req[r].id, req[r].value))
         /\ \A o \in Slots \ {r} :
              (req[o].pc = "resp" /\ req[o].status = 200
                 /\ req[o].pageSlug = req[r].pageSlug
                 /\ getNestedValue(req[r].data.microtext, req[o].id) # Str(req[o].value)
                 /\ req[o].id # req[r].id)
              => getNestedValue(file[req[r].pageSlug].microtext, req[o].id)
                   # Str(req[o].value)

\* Both calls answered 200, the tool's write came last, and the value the
\* sync call wrote is gone.
C9_Witness ==
  /\ req["sync"].pc = "resp" /\ req["sync"].status = 200
  /\ req["tool"].pc = "resp" /\ req["tool"].status = 200
  /\ req["sync"].id = HeroHeadline /\ req["tool"].id = <<"cta">>
  /\ lastWriter = "tool"
  /\ getNestedValue(file["home"].microtext, HeroHeadline) = Str("A")

====
